---- MODULE Spec2Model ----
(***************************************************************************)
(* Model of the rag-improver gap-filling pipeline:                         *)
(*   - KnowledgeUpdater (core/KnowledgeUpdater.js): validation, approval   *)
(*     gate, backup, conflict resolution, commit, update log;              *)
(*   - AgentWorkflowManager / CommunicationManager: expert-contact         *)
(*     workflows, response timers, follow-ups, archive;                    *)
(*   - KnowledgeGapDetector, ContactLocator, InformationProcessor;         *)
(*   - RAGEngine.query and the singleton accessor of index.js.             *)
(* A call of an async method is split at its I/O awaits: the synchronous   *)
(* prefix is one action, each completion of an awaited I/O call is one     *)
(* action that runs the continuation up to the next I/O await.             *)
(***************************************************************************)
EXTENDS Integers, Sequences, FiniteSets, TLC

\* ------------------------------------------------------------------ bounds
MaxUpdates == 2
MaxWorkflows == 1
MaxResponses == 1
MaxAnalyses == 2
MaxDocs == 1
MaxExperts == 2
MaxProcessings == 1
MaxEngines == 2
MaxCallers == 2
MaxQueries == 1
MaxShutdowns == 2
MaxTime == 1
Hour == 1
UpdatesPerHour == 1

UpdateIds == 1..MaxUpdates
WorkflowIds == 1..MaxWorkflows
AnalysisIds == 1..MaxAnalyses
ProcessingIds == 1..MaxProcessings
EngineIds == 1..MaxEngines
CallerIds == 1..MaxCallers
QueryIds == 1..MaxQueries

\* ------------------------------------------------------- processed infos
\* The processed-information objects handed to the updater.  confidence is
\* in tenths (2 = 0.2, 3 = 0.3, 6 = 0.6) and read only when hasExtraction.
LowConfidence == 3
WarnConfidence == 5

Info(success, nChunks, hasExtraction, confidence, validationOk, hasConflicts) ==
  [success |-> success, nChunks |-> nChunks, hasExtraction |-> hasExtraction,
   confidence |-> confidence, validationOk |-> validationOk,
   hasConflicts |-> hasConflicts]

\* 1: a clean result; 2: a result with conflicts, confidence on the 0.3
\* boundary; 3: confidence 0.2; 4: no extraction block; 5: the result of a
\* reply that failed the processor's own validation
processedInfo ==
  <<Info(TRUE, 1, TRUE, 6, TRUE, FALSE),
    Info(TRUE, 2, TRUE, 3, TRUE, TRUE),
    Info(TRUE, 1, TRUE, 2, TRUE, TRUE),
    Info(TRUE, 1, FALSE, 0, TRUE, FALSE),
    Info(FALSE, 0, FALSE, 0, FALSE, FALSE)>>

InfoIds == 1..Len(processedInfo)

Strategies == {"auto_merge", "human_review", "create_new", "unknown"}

Configs ==
  [requireHumanApproval : BOOLEAN, backupEnabled : BOOLEAN,
   conflictResolution : Strategies]

VARIABLES
  config,          \* this.config.knowledgeUpdate
  isInitialized,   \* this.isInitialized
  nextId,          \* number of update records created so far (uuidv4)
  updates,         \* the update objects, by id
  updateQueue,     \* this.updateQueue
  updateHistory,   \* this.updateHistory
  calls,           \* in-flight updateKnowledgeBase calls: position and options
  updateLogFile,   \* knowledge_updates.json, one entry per appended line
  approvalFile,    \* approval_requests.jsonl
  conflictsFile,   \* conflicts.jsonl
  backups,         \* update ids for which vectorDB.backup succeeded
  addCalls,        \* vectorDB.addDocuments calls made, in order
  storeDocs,       \* documents held by the vector store
  now,             \* Date.now(), in ticks
  returned,        \* the value returned by the step just taken, with its arguments
  wfIsInitialized, \* AgentWorkflowManager.isInitialized
  wfNextId,        \* number of workflows created so far (uuidv4)
  workflows,       \* the workflow objects, by id
  activeWorkflows, \* AgentWorkflowManager.activeWorkflows (its keys)
  workflowHistory, \* AgentWorkflowManager.workflowHistory
  wfCalls,         \* position of each triggerWorkflow call
  responses,       \* position of each processResponse call
  pendingRequests, \* CommunicationManager.pendingRequests, by workflow
  dispatches,      \* messages sent to the expert of each workflow
  followUps,       \* follow-up messages among them
  escalationsFile, \* escalations.jsonl
  workflowFiles,   \* workflows/<id>.json files written
  wfReturned,      \* the value returned by the workflow step just taken
  gapIsInitialized, \* KnowledgeGapDetector.isInitialized
  gapNextId,       \* number of analyzeKnowledgeGap calls made so far
  gapCalls,        \* in-flight analyzeKnowledgeGap calls: position, arguments, analysis
  gapHistory,      \* KnowledgeGapDetector.gapHistory
  gapLogFile,      \* gap_analysis.jsonl
  llmCalls,        \* llm.invoke calls made, by analyzeKnowledgeGap call
  gapReturned,     \* the value returned by the detector step just taken
  locIsInitialized, \* ContactLocator.isInitialized
  defaultContacts, \* the domains with an entry in employeeDirectory.defaultContacts
  expertiseMap,    \* ContactLocator.expertiseMap
  locReturned,     \* the value returned by the locator step just taken
  ipIsInitialized, \* InformationProcessor.isInitialized
  ipNextId,        \* the number of processReceivedInformation calls started
  ipCalls,         \* the processReceivedInformation calls in flight
  ipProcessedInfo, \* InformationProcessor.processedInfo
  processedFiles,  \* the number of files written under processed_info
  ipReturned,      \* the value returned by the processor step just taken
  ragEngineInstance, \* index.js ragEngineInstance: an engine, or 0 for null
  engNextId,       \* number of RAGEngine objects constructed
  engines,         \* each RAGEngine: isInitialized, its gapDetector.isInitialized
  getCalls,        \* the frame of each getRAGEngine call
  getNextId,       \* number of getRAGEngine calls made
  queryCalls,      \* the frame of each RAGEngine.query call
  queryNextId,     \* number of query calls made
  shutdowns,       \* number of shutdown calls made
  engReturned      \* the value returned by the engine step just taken

uvars == <<config, isInitialized, nextId, updates, updateQueue, updateHistory,
           calls, updateLogFile, approvalFile, conflictsFile, backups,
           addCalls, storeDocs, now, returned>>

wvars == <<wfIsInitialized, wfNextId, workflows, activeWorkflows, workflowHistory,
           wfCalls, responses, pendingRequests, dispatches, followUps,
           escalationsFile, workflowFiles, wfReturned>>

gvars == <<gapIsInitialized, gapNextId, gapCalls, gapHistory, gapLogFile, llmCalls,
           gapReturned>>

lvars == <<locIsInitialized, defaultContacts, expertiseMap, locReturned>>

pvars == <<ipIsInitialized, ipNextId, ipCalls, ipProcessedInfo, processedFiles, ipReturned>>

evars == <<ragEngineInstance, engNextId, engines, getCalls, getNextId, queryCalls,
           queryNextId, shutdowns, engReturned>>

vars == <<uvars, wvars, gvars, lvars, pvars, evars>>

\* ----------------------------------------------------------- update object
NoUpdate ==
  [status |-> "none", requestedAt |-> 0, completedAt |-> -1,
   steps |-> <<>>, backupPath |-> FALSE, conflictResolution |-> "none",
   nDocs |-> 0, hasError |-> FALSE]

\* processedInfoId and options are kept with the call (calls[u]): the copies in
\* the update object are read by approveUpdate only, to call getProcessedInfo
NewUpdate(t) ==
  [NoUpdate EXCEPT !.status = "initiated", !.requestedAt = t]

addUpdateStep(update, step, status) ==
  [update EXCEPT !.steps = Append(@, <<step, status>>)]

NoCall == [pc |-> "none", processedInfoId |-> 0, approved |-> FALSE]

Call(pc, p, approved) == [pc |-> pc, processedInfoId |-> p, approved |-> approved]

\* a returned value, with the call's arguments (c: processedInfoId, approved)
NoReturn ==
  [op |-> "none", id |-> 0, processedInfoId |-> 0, approved |-> FALSE,
   success |-> FALSE, status |-> "", error |-> "", details |-> {}]

Return(op, id, c, success, status, error, details) ==
  [op |-> op, id |-> id, processedInfoId |-> c.processedInfoId,
   approved |-> c.approved, success |-> success,
   status |-> status, error |-> error, details |-> details]

\* ------------------------------------------------------------ validateUpdate
updateTime(update) ==
  IF update.completedAt # -1 THEN update.completedAt ELSE update.requestedAt

recentUpdates(hist, upds, t) ==
  {i \in 1..Len(hist) : updateTime(upds[hist[i]]) > t - Hour}

\* a limit that lets one update too many through
RateLimitExceeded_OffByOne(hist, upds, t) ==
  Cardinality(recentUpdates(hist, upds, t)) > UpdatesPerHour

RateLimitExceeded(hist, upds, t) ==
  Cardinality(recentUpdates(hist, upds, t)) >= UpdatesPerHour

\* a threshold that lets 0.2 through
ConfidenceTooLow_Lax(pi) == pi.hasExtraction /\ pi.confidence < LowConfidence - 1

ConfidenceTooLow(pi) == pi.hasExtraction /\ pi.confidence < LowConfidence

validateUpdate(pi, hist, upds, t) ==
  LET errors ==
        (IF ~pi.success THEN {"invalid"} ELSE {})
        \cup (IF pi.nChunks = 0 THEN {"no_chunks"} ELSE {})
        \cup (IF ConfidenceTooLow(pi) THEN {"low_confidence"} ELSE {})
        \cup (IF ~pi.validationOk THEN {"validation_issues"} ELSE {})
        \cup (IF RateLimitExceeded(hist, upds, t) THEN {"rate_limit"} ELSE {})
      warnings ==
        IF pi.hasExtraction /\ pi.confidence < WarnConfidence
        THEN {"low_confidence"} ELSE {}
  IN [isValid |-> errors = {}, errors |-> errors, warnings |-> warnings]

\* the catch block of updateKnowledgeBase: marks the LAST queued update
CatchBlock(upds, queue) ==
  IF Len(queue) > 0
  THEN [upds EXCEPT ![queue[Len(queue)]] =
          addUpdateStep([@ EXCEPT !.status = "error", !.hasError = TRUE],
                        "error", "failed")]
  ELSE upds

\* --------------------------------------------- pipeline stages (lines 70-159)
\* Each stage runs the code from its first line up to the next I/O await and
\* yields the update object, the position reached, and the value returned
\* (when the call returns in this stage).  c is the call: its arguments.
Outcome(update, pc, ret) == [update |-> update, pc |-> pc, ret |-> ret]

Failure(u, c, error) == Return("update", u, c, FALSE, "", error, {})

\* Step 5 up to the await of vectorDB.addDocuments
VectorStage(update) ==
  Outcome(addUpdateStep(update, "vector_db_update", "in_progress"), "vector_io", NoReturn)

\* Step 4 once resolveConflicts has produced a successful resolution
ConflictResolved(update, resolution) ==
  VectorStage([addUpdateStep(update, "conflict_resolution", "completed")
                 EXCEPT !.conflictResolution = resolution])

ConflictFailed(update, u, c) ==
  Outcome([addUpdateStep(update, "conflict_resolution", "failed")
             EXCEPT !.status = "conflict_resolution_failed"],
          "done", Failure(u, c, "Conflict resolution failed"))

\* resolveConflicts up to its first await: the strategy switch
resolveConflicts(update, u, c, cfg) ==
  CASE cfg.conflictResolution \in {"auto_merge", "create_new"} ->
         ConflictResolved(update, "created_new_document")
    [] cfg.conflictResolution = "human_review" ->
         Outcome(update, "conflict_io", NoReturn)
    [] OTHER -> ConflictFailed(update, u, c)

\* Step 4 up to the next await
ConflictStage(update, u, c, cfg) ==
  IF processedInfo[c.processedInfoId].hasConflicts
  THEN resolveConflicts(addUpdateStep(update, "conflict_resolution", "in_progress"),
                        u, c, cfg)
  ELSE VectorStage(update)

\* a pipeline that goes on to the commit without a backup
BackupStage_Skipped(update, u, c, cfg) == ConflictStage(update, u, c, cfg)

\* Step 3 up to the next await
BackupStage(update, u, c, cfg) ==
  IF cfg.backupEnabled
  THEN Outcome(addUpdateStep(update, "backup", "in_progress"), "backup_io", NoReturn)
  ELSE ConflictStage(update, u, c, cfg)

\* a pipeline without the approval gate
ApprovalStage_NoGate(update, u, c, cfg) == BackupStage(update, u, c, cfg)

\* Step 2 up to the next await; requestHumanApproval reads
\* processedInfo.extraction.structuredInfo before its appendFile
ApprovalStage(update, u, c, cfg) ==
  IF cfg.requireHumanApproval /\ ~c.approved
  THEN Outcome([addUpdateStep(update, "human_approval", "pending")
                  EXCEPT !.status = "awaiting_approval"],
               IF processedInfo[c.processedInfoId].hasExtraction
               THEN "approval_io" ELSE "throw", NoReturn)
  ELSE BackupStage(update, u, c, cfg)

\* Step 1 up to the next await (validateUpdate does no I/O)
ValidationStage(update, u, c, cfg, hist, upds, t) ==
  LET v == validateUpdate(processedInfo[c.processedInfoId], hist, upds, t)
      u0 == addUpdateStep(update, "validation", "in_progress")
  IN IF ~v.isValid
     THEN Outcome([addUpdateStep(u0, "validation", "failed")
                     EXCEPT !.status = "validation_failed"],
                  "done", Return("update", u, c, FALSE, "", "Validation failed", v.errors))
     ELSE ApprovalStage(addUpdateStep(u0, "validation", "completed"), u, c, cfg)

InFlight == {u \in UpdateIds : calls[u].pc # "none"}

\* apply an Outcome to update u of call c; queue is this.updateQueue
Proceed(u, c, o, queue) ==
  /\ updates' = IF o.pc = "throw"
                THEN CatchBlock([updates EXCEPT ![u] = o.update], queue)
                ELSE [updates EXCEPT ![u] = o.update]
  /\ calls' = [calls EXCEPT ![u] =
                 IF o.pc \in {"done", "throw"} THEN NoCall
                 ELSE Call(o.pc, c.processedInfoId, c.approved)]
  /\ returned' = IF o.pc = "throw" THEN Failure(u, c, "exception") ELSE o.ret
  /\ addCalls' = IF o.pc = "vector_io"
                 THEN Append(addCalls, [id |-> u, processedInfoId |-> c.processedInfoId])
                 ELSE addCalls

\* ------------------------------------------------------------------ actions
\* updateKnowledgeBase, from entry to its first I/O await (lines 48-105)
BeginUpdate(p, approved) ==
  /\ nextId < MaxUpdates
  /\ LET u == nextId + 1
         queue == Append(updateQueue, u)
         c == Call("begin", p, approved)
     IN /\ nextId' = u
        /\ isInitialized' = TRUE
        /\ updateQueue' = queue
        /\ Proceed(u, c,
                   ValidationStage(NewUpdate(now), u, c, config,
                                   updateHistory, updates, now),
                   queue)
  /\ UNCHANGED <<config, updateHistory, updateLogFile, approvalFile, conflictsFile,
                 backups, storeDocs, now>>
  /\ UNCHANGED <<wvars, gvars, lvars, pvars, evars>>

\* requestHumanApproval's appendFile completes (lines 90-99, 440-468)
ApprovalReturns(u, ok) ==
  /\ calls[u].pc = "approval_io"
  /\ calls' = [calls EXCEPT ![u] = NoCall]
  /\ IF ok
     THEN /\ approvalFile' = Append(approvalFile, u)
          /\ returned' = Return("update", u, calls[u], TRUE, "awaiting_approval", "", {})
          /\ UNCHANGED updates
     ELSE /\ updates' = CatchBlock(updates, updateQueue)
          /\ returned' = Failure(u, calls[u], "exception")
          /\ UNCHANGED approvalFile
  /\ UNCHANGED <<config, isInitialized, nextId, updateQueue, updateHistory, updateLogFile,
                 conflictsFile, backups, addCalls, storeDocs, now>>
  /\ UNCHANGED <<wvars, gvars, lvars, pvars, evars>>

\* a pipeline that goes on after a failed backup
BackupReturns_IgnoresFailure(u, ok) ==
  /\ calls[u].pc = "backup_io"
  /\ backups' = IF ok THEN backups \cup {u} ELSE backups
  /\ Proceed(u, calls[u],
             ConflictStage([addUpdateStep(updates[u], "backup", IF ok THEN "completed" ELSE "failed")
                              EXCEPT !.backupPath = ok],
                           u, calls[u], config),
             updateQueue)
  /\ UNCHANGED <<config, isInitialized, nextId, updateQueue, updateHistory, updateLogFile,
                 approvalFile, conflictsFile, storeDocs, now>>
  /\ UNCHANGED <<wvars, gvars, lvars, pvars, evars>>

\* createBackup's vectorDB.backup completes (lines 105-119, 275-296)
BackupReturns(u, ok) ==
  /\ calls[u].pc = "backup_io"
  /\ IF ok
     THEN /\ backups' = backups \cup {u}
          /\ Proceed(u, calls[u],
                     ConflictStage([addUpdateStep(updates[u], "backup", "completed")
                                      EXCEPT !.backupPath = TRUE],
                                   u, calls[u], config),
                     updateQueue)
     ELSE /\ UNCHANGED backups
          /\ Proceed(u, calls[u],
                     Outcome([addUpdateStep(updates[u], "backup", "failed")
                                EXCEPT !.status = "backup_failed"],
                             "done", Failure(u, calls[u], "Backup failed")),
                     updateQueue)
  /\ UNCHANGED <<config, isInitialized, nextId, updateQueue, updateHistory, updateLogFile,
                 approvalFile, conflictsFile, storeDocs, now>>
  /\ UNCHANGED <<wvars, gvars, lvars, pvars, evars>>

\* escalateToHumanReview's appendFile completes (lines 125-139, 348-370)
ConflictReturns(u, ok) ==
  /\ calls[u].pc = "conflict_io"
  /\ IF ok
     THEN /\ conflictsFile' = Append(conflictsFile, u)
          /\ Proceed(u, calls[u],
                     ConflictResolved(updates[u], "escalated_to_human_review"),
                     updateQueue)
     ELSE /\ UNCHANGED conflictsFile
          /\ Proceed(u, calls[u], ConflictFailed(updates[u], u, calls[u]), updateQueue)
  /\ UNCHANGED <<config, isInitialized, nextId, updateQueue, updateHistory, updateLogFile,
                 approvalFile, backups, storeDocs, now>>
  /\ UNCHANGED <<wvars, gvars, lvars, pvars, evars>>

\* saveUpdateLog (lines 569-578); the append is taken to succeed
saveUpdateLog(log, u, status) == Append(log, [id |-> u, status |-> status])

\* vectorDB.addDocuments completes; steps 5-6 and completion (lines 144-188)
VectorReturns(u, ok) ==
  /\ calls[u].pc = "vector_io"
  /\ calls' = [calls EXCEPT ![u] = NoCall]
  /\ IF ok
     THEN LET n == processedInfo[calls[u].processedInfoId].nChunks
          IN /\ storeDocs' = storeDocs \cup {<<u, k>> : k \in 1..n}
             /\ updates' = [updates EXCEPT ![u] =
                  [addUpdateStep(addUpdateStep(addUpdateStep(@,
                       "vector_db_update", "completed"),
                       "metadata_update", "in_progress"),
                       "metadata_update", "completed")
                    EXCEPT !.nDocs = n, !.status = "completed", !.completedAt = now]]
             /\ updateQueue' = SelectSeq(updateQueue, LAMBDA x : x # u)
             /\ updateHistory' = Append(updateHistory, u)
             /\ updateLogFile' = saveUpdateLog(updateLogFile, u, "completed")
             /\ returned' = Return("update", u, calls[u], TRUE, "completed", "", {})
     ELSE /\ updates' = [updates EXCEPT ![u] =
               [addUpdateStep(@, "vector_db_update", "failed")
                  EXCEPT !.status = "vector_db_failed"]]
          /\ returned' = Failure(u, calls[u], "Vector database update failed")
          /\ UNCHANGED <<storeDocs, updateQueue, updateHistory, updateLogFile>>
  /\ UNCHANGED <<config, isInitialized, nextId, approvalFile, conflictsFile, backups,
                 addCalls, now>>
  /\ UNCHANGED <<wvars, gvars, lvars, pvars, evars>>

InQueue(u) == \E i \in 1..Len(updateQueue) : updateQueue[i] = u

\* an approve that looks the update up in the history as well
ApproveUpdate_FindsArchived(u) ==
  /\ u <= nextId
  /\ returned' =
       IF updates[u].status = "completed"
       THEN Return("approve", u, NoCall, TRUE, "completed", "", {})
       ELSE Return("approve", u, NoCall, FALSE, "", "not awaiting approval", {})
  /\ UNCHANGED <<config, isInitialized, nextId, updates, updateQueue, updateHistory, calls,
                 updateLogFile, approvalFile, conflictsFile, backups, addCalls,
                 storeDocs, now>>
  /\ UNCHANGED <<wvars, gvars, lvars, pvars, evars>>

\* approveUpdate (lines 476-503): every path ends in the catch block, because
\* getProcessedInfo always throws
ApproveUpdate(u) ==
  /\ u <= nextId
  /\ returned' =
       IF ~InQueue(u)
       THEN Return("approve", u, NoCall, FALSE, "", "not found in queue", {})
       ELSE IF updates[u].status # "awaiting_approval"
       THEN Return("approve", u, NoCall, FALSE, "", "not awaiting approval", {})
       ELSE Return("approve", u, NoCall, FALSE, "", "getProcessedInfo not implemented", {})
  /\ UNCHANGED <<config, isInitialized, nextId, updates, updateQueue, updateHistory, calls,
                 updateLogFile, approvalFile, conflictsFile, backups, addCalls,
                 storeDocs, now>>
  /\ UNCHANGED <<wvars, gvars, lvars, pvars, evars>>

\* rejectUpdate (lines 511-545); an id that is not queued is an early return
RejectUpdate(u) ==
  /\ InQueue(u)
  /\ updates' = [updates EXCEPT ![u] =
       addUpdateStep([@ EXCEPT !.status = "rejected"], "human_approval", "rejected")]
  /\ updateQueue' = SelectSeq(updateQueue, LAMBDA x : x # u)
  /\ updateHistory' = Append(updateHistory, u)
  /\ updateLogFile' = saveUpdateLog(updateLogFile, u, "rejected")
  /\ returned' = Return("reject", u, NoCall, TRUE, "rejected", "", {})
  /\ UNCHANGED <<config, isInitialized, nextId, calls, approvalFile, conflictsFile,
                 backups, addCalls, storeDocs, now>>
  /\ UNCHANGED <<wvars, gvars, lvars, pvars, evars>>

\* time passes
Tick ==
  /\ now < MaxTime
  /\ now' = now + 1
  /\ returned' = NoReturn
  /\ UNCHANGED <<config, isInitialized, nextId, updates, updateQueue, updateHistory, calls,
                 updateLogFile, approvalFile, conflictsFile, backups, addCalls,
                 storeDocs>>
  /\ UNCHANGED <<wvars, gvars, lvars, pvars, evars>>

\* ------------------------------------------------------------ specification
\* ------------------------------------------------------ AgentWorkflowManager
RetryAttempts == 3
HistoryLimit == 1000
HighConfidence == 80

GapTypes ==
  {"no_documents", "low_relevance", "outdated_info", "unclear_question", "partial_info",
   "analysis_error"}

GapAnalysis(gapType, expertContactNeeded, confidence) ==
  [gapType |-> gapType, expertContactNeeded |-> expertContactNeeded,
   confidence |-> confidence]

NoGapAnalysis == GapAnalysis("none", FALSE, 0)

\* the fields of a gap analysis that choose the strategy; confidence in hundredths
GapAnalyses ==
  [gapType : GapTypes, expertContactNeeded : BOOLEAN, confidence : {50, 80, 95}]

Strategy(type, priority, timeout, fallback) ==
  [type |-> type, priority |-> priority, timeout |-> timeout, fallback |-> fallback]

NoStrategy == Strategy("none", "none", 0, "none")

\* a selection that takes confidence 0.8 for high confidence
determineWorkflowStrategy_AtLeast(gapAnalysis) ==
  IF gapAnalysis.expertContactNeeded /\ gapAnalysis.confidence >= HighConfidence
  THEN Strategy("expert_contact", "high", 120, "none")
  ELSE IF gapAnalysis.gapType = "no_documents"
  THEN Strategy("document_search", "medium", 30, "expert_contact")
  ELSE IF gapAnalysis.gapType = "outdated_info"
  THEN Strategy("expert_contact", "medium", 240, "none")
  ELSE IF gapAnalysis.gapType = "unclear_question"
  THEN Strategy("clarification", "low", 60, "none")
  ELSE IF gapAnalysis.gapType = "partial_info"
  THEN Strategy("expert_contact", "medium", 180, "none")
  ELSE Strategy("escalation", "low", 1440, "none")

\* timeouts in minutes
determineWorkflowStrategy(gapAnalysis) ==
  IF gapAnalysis.expertContactNeeded /\ gapAnalysis.confidence > HighConfidence
  THEN Strategy("expert_contact", "high", 120, "none")
  ELSE IF gapAnalysis.gapType = "no_documents"
  THEN Strategy("document_search", "medium", 30, "expert_contact")
  ELSE IF gapAnalysis.gapType = "outdated_info"
  THEN Strategy("expert_contact", "medium", 240, "none")
  ELSE IF gapAnalysis.gapType = "unclear_question"
  THEN Strategy("clarification", "low", 60, "none")
  ELSE IF gapAnalysis.gapType = "partial_info"
  THEN Strategy("expert_contact", "medium", 180, "none")
  ELSE Strategy("escalation", "low", 1440, "none")

NoResult == [success |-> FALSE, reason |-> "none"]

Result(success, reason) == [success |-> success, reason |-> reason]

\* an original query, by whether the vector store holds documents that clear
\* the relevance threshold for the queries suggested in its place
OriginalQueries == [expandable : BOOLEAN]

NoWorkflow ==
  [status |-> "none", query |-> [expandable |-> FALSE], gapAnalysis |-> NoGapAnalysis,
   strategy |-> NoStrategy, steps |-> <<>>, monitor |-> "none", result |-> NoResult]

NewWorkflow(gapAnalysis, originalQuery, strategy) ==
  [NoWorkflow EXCEPT !.status = "initiated", !.query = originalQuery,
                     !.gapAnalysis = gapAnalysis, !.strategy = strategy]

\* performExpandedSearch (lines 1031-1047) searches nothing and finds nothing
performExpandedSearch(originalQuery) == [found |-> FALSE, documents |-> <<>>]

addWorkflowStep(workflow, step, status) ==
  [workflow EXCEPT !.steps = Append(@, <<step, status>>)]

NoWfReturn == [op |-> "none", id |-> 0, success |-> FALSE, reason |-> ""]

WfReturn(op, id, success, reason) ==
  [op |-> op, id |-> id, success |-> success, reason |-> reason]

\* setupResponseMonitoring (lines 1087-1105): a one-shot timer
setupResponseMonitoring(workflow) == [workflow EXCEPT !.monitor = "armed"]

\* archiveWorkflow up to its await (lines 1184-1194)
archivedHistory(history, w) ==
  LET h == Append(history, w)
  IN IF Len(h) > HistoryLimit THEN Tail(h) ELSE h

\* triggerWorkflow after the strategy's result (lines 689-695): the status is
\* set from the result and the workflow leaves activeWorkflows
Finish(w, workflow, success, reason) ==
  /\ workflows' = [workflows EXCEPT
                     ![w] = [workflow EXCEPT
                               !.status = IF success THEN "completed" ELSE "failed",
                               !.result = Result(success, reason)]]
  /\ activeWorkflows' = activeWorkflows \ {w}
  /\ workflowHistory' = archivedHistory(workflowHistory, w)
  /\ wfCalls' = [wfCalls EXCEPT ![w] = "archiving"]

\* the end of executeExpertContactWorkflow, through executeDocumentSearchWorkflow
\* when it was the fallback (lines 877-883)
FinishExpertContact(w, workflow, success, reason) ==
  Finish(w,
         IF workflow.strategy.type = "document_search"
         THEN addWorkflowStep(workflow, "fallback_to_expert",
                              IF success THEN "completed" ELSE "failed")
         ELSE workflow,
         success, reason)

\* a strategy that awaits: the workflow stays active
Await(w, workflow, pc) ==
  /\ workflows' = [workflows EXCEPT ![w] = workflow]
  /\ activeWorkflows' = activeWorkflows \cup {w}
  /\ wfCalls' = [wfCalls EXCEPT ![w] = pc]
  /\ UNCHANGED workflowHistory

\* triggerWorkflow up to its first await on I/O (lines 640-688); initialize
\* (lines 614-632) rethrows its failure, and the call of it is outside the
\* try block
triggerWorkflow(gapAnalysis, originalQuery, initOk) ==
  /\ wfNextId < MaxWorkflows
  /\ IF ~wfIsInitialized /\ ~initOk
     THEN /\ wfReturned' = WfReturn("trigger", 0, FALSE, "thrown")
          /\ UNCHANGED <<wfIsInitialized, wfNextId, workflows, activeWorkflows,
                         workflowHistory, wfCalls>>
     ELSE /\ LET w == wfNextId + 1
                 strategy == determineWorkflowStrategy(gapAnalysis)
                 workflow == NewWorkflow(gapAnalysis, originalQuery, strategy)
             IN /\ wfNextId' = w
                /\ CASE strategy.type = "expert_contact" ->
                          Await(w, addWorkflowStep(workflow, "locating_expert", "in_progress"),
                                "finding_expert")
                     [] strategy.type = "document_search" ->
                          LET expandedResults == performExpandedSearch(originalQuery)
                              searched ==
                                addWorkflowStep(
                                  addWorkflowStep(workflow, "expanding_search", "in_progress"),
                                  "expanding_search", "completed")
                          IN IF expandedResults.found
                             THEN Finish(w, searched, TRUE, "documents_found")
                             ELSE IF strategy.fallback = "expert_contact"
                             THEN Await(w,
                                        addWorkflowStep(
                                          addWorkflowStep(searched, "fallback_to_expert", "in_progress"),
                                          "locating_expert", "in_progress"),
                                        "finding_expert")
                             ELSE Finish(w, searched, FALSE, "no_documents_found")
                     [] strategy.type = "escalation" ->
                          Await(w, addWorkflowStep(workflow, "logging_escalation", "in_progress"),
                                "logging_escalation")
                     [] strategy.type = "clarification" ->
                          Finish(w, addWorkflowStep(workflow, "generating_suggestions", "completed"),
                                 TRUE, "clarification_needed")
                     [] OTHER ->
                          Finish(w, addWorkflowStep(workflow, "default_handling", "completed"),
                                 TRUE, "default_handling")
          /\ wfIsInitialized' = TRUE
          /\ wfReturned' = NoWfReturn
  /\ UNCHANGED <<responses, pendingRequests, dispatches, followUps, escalationsFile,
                 workflowFiles>>
  /\ UNCHANGED <<uvars, gvars, lvars, pvars, evars>>

\* an expert contact that sends the request although no expert was found
FindExpertReturns_SendsAnyway(w, outcome) ==
  /\ wfCalls[w] = "finding_expert"
  /\ workflows' = [workflows EXCEPT
       ![w] = addWorkflowStep(
                addWorkflowStep(@, "locating_expert",
                                IF outcome = "expert" THEN "completed" ELSE "failed"),
                "sending_request", "in_progress")]
  /\ wfCalls' = [wfCalls EXCEPT ![w] = "sending_request"]
  /\ wfReturned' = NoWfReturn
  /\ UNCHANGED <<wfIsInitialized, wfNextId, activeWorkflows, workflowHistory, responses,
                 pendingRequests, dispatches, followUps, escalationsFile, workflowFiles>>
  /\ UNCHANGED <<uvars, gvars, lvars, pvars, evars>>

\* contactLocator.findExpert completes (lines 779-792, catch 828-838)
FindExpertReturns(w, outcome) ==
  /\ wfCalls[w] = "finding_expert"
  /\ CASE outcome = "expert" ->
            /\ workflows' = [workflows EXCEPT
                 ![w] = addWorkflowStep(
                          addWorkflowStep(@, "locating_expert", "completed"),
                          "sending_request", "in_progress")]
            /\ wfCalls' = [wfCalls EXCEPT ![w] = "sending_request"]
            /\ UNCHANGED <<activeWorkflows, workflowHistory>>
       [] outcome = "none" ->
            FinishExpertContact(w, addWorkflowStep(workflows[w], "locating_expert", "failed"),
                                FALSE, "no_expert_found")
       [] OTHER ->
            FinishExpertContact(w, addWorkflowStep(workflows[w], "workflow_error", "failed"),
                                FALSE, "workflow_error")
  /\ wfReturned' = NoWfReturn
  /\ UNCHANGED <<wfIsInitialized, wfNextId, responses, pendingRequests, dispatches,
                 followUps, escalationsFile, workflowFiles>>
  /\ UNCHANGED <<uvars, gvars, lvars, pvars, evars>>

\* an expert contact that monitors a request that was not sent
SendRequestReturns_ArmsAnyway(w, outcome) ==
  /\ wfCalls[w] = "sending_request"
  /\ dispatches' = [dispatches EXCEPT ![w] = IF outcome = "no_channel" THEN @ ELSE @ + 1]
  /\ pendingRequests' = IF outcome = "sent" THEN pendingRequests \cup {w} ELSE pendingRequests
  /\ FinishExpertContact(
       w,
       setupResponseMonitoring(
         addWorkflowStep(workflows[w], "sending_request",
                         IF outcome = "sent" THEN "completed" ELSE "failed")),
       outcome = "sent",
       IF outcome = "sent" THEN "request_sent" ELSE "request_failed")
  /\ wfReturned' = NoWfReturn
  /\ UNCHANGED <<wfIsInitialized, wfNextId, responses, followUps, escalationsFile,
                 workflowFiles>>
  /\ UNCHANGED <<uvars, gvars, lvars, pvars, evars>>

\* communicationManager.sendInformationRequest completes (lines 69-121, 797-826):
\* the message was sent, the send failed, or the expert has no channel
SendRequestReturns(w, outcome) ==
  /\ wfCalls[w] = "sending_request"
  /\ dispatches' = [dispatches EXCEPT ![w] = IF outcome = "no_channel" THEN @ ELSE @ + 1]
  /\ IF outcome = "sent"
     THEN /\ pendingRequests' = pendingRequests \cup {w}
          /\ FinishExpertContact(
               w,
               setupResponseMonitoring(
                 addWorkflowStep(
                   addWorkflowStep(workflows[w], "sending_request", "completed"),
                   "awaiting_response", "in_progress")),
               TRUE, "request_sent")
     ELSE /\ UNCHANGED pendingRequests
          /\ FinishExpertContact(w, addWorkflowStep(workflows[w], "sending_request", "failed"),
                                 FALSE, "request_failed")
  /\ wfReturned' = NoWfReturn
  /\ UNCHANGED <<wfIsInitialized, wfNextId, responses, followUps, escalationsFile,
                 workflowFiles>>
  /\ UNCHANGED <<uvars, gvars, lvars, pvars, evars>>

\* an escalation without its catch block: the failure of the write leaves
\* triggerWorkflow as an exception
LogEscalationReturns_Rethrows(w, ok) ==
  /\ wfCalls[w] = "logging_escalation"
  /\ IF ok
     THEN /\ escalationsFile' = escalationsFile \cup {w}
          /\ workflows' = [workflows EXCEPT
               ![w] = addWorkflowStep(
                        addWorkflowStep(@, "logging_escalation", "completed"),
                        "notifying_admins", "in_progress")]
          /\ wfCalls' = [wfCalls EXCEPT ![w] = "notifying_admins"]
          /\ wfReturned' = NoWfReturn
     ELSE /\ wfCalls' = [wfCalls EXCEPT ![w] = "done"]
          /\ wfReturned' = WfReturn("trigger", w, FALSE, "thrown")
          /\ UNCHANGED <<escalationsFile, workflows>>
  /\ UNCHANGED <<wfIsInitialized, wfNextId, activeWorkflows, workflowHistory, responses,
                 pendingRequests, dispatches, followUps, workflowFiles>>
  /\ UNCHANGED <<uvars, gvars, lvars, pvars, evars>>

\* logEscalation's appendFile completes (lines 906-925, 1216-1231, catch 943-953)
LogEscalationReturns(w, ok) ==
  /\ wfCalls[w] = "logging_escalation"
  /\ IF ok
     THEN /\ escalationsFile' = escalationsFile \cup {w}
          /\ workflows' = [workflows EXCEPT
               ![w] = addWorkflowStep(
                        addWorkflowStep(@, "logging_escalation", "completed"),
                        "notifying_admins", "in_progress")]
          /\ wfCalls' = [wfCalls EXCEPT ![w] = "notifying_admins"]
          /\ UNCHANGED <<activeWorkflows, workflowHistory>>
     ELSE /\ UNCHANGED escalationsFile
          /\ Finish(w, addWorkflowStep(workflows[w], "workflow_error", "failed"),
                    FALSE, "workflow_error")
  /\ wfReturned' = NoWfReturn
  /\ UNCHANGED <<wfIsInitialized, wfNextId, responses, pendingRequests, dispatches,
                 followUps, workflowFiles>>
  /\ UNCHANGED <<uvars, gvars, lvars, pvars, evars>>

\* an escalation whose result follows the outcome of the notification
NotifyAdministratorsReturns_FailsOnError(w, ok) ==
  /\ wfCalls[w] = "notifying_admins"
  /\ Finish(w,
            addWorkflowStep(workflows[w], "notifying_admins",
                            IF ok THEN "completed" ELSE "failed"),
            ok, IF ok THEN "escalated" ELSE "workflow_error")
  /\ wfReturned' = NoWfReturn
  /\ UNCHANGED <<wfIsInitialized, wfNextId, responses, pendingRequests, dispatches,
                 followUps, escalationsFile, workflowFiles>>
  /\ UNCHANGED <<uvars, gvars, lvars, pvars, evars>>

\* communicationManager.notifyAdministrators completes (lines 429-504, 927-942)
NotifyAdministratorsReturns(w, ok) ==
  /\ wfCalls[w] = "notifying_admins"
  /\ Finish(w,
            addWorkflowStep(workflows[w], "notifying_admins",
                            IF ok THEN "completed" ELSE "failed"),
            TRUE, "escalated")
  /\ wfReturned' = NoWfReturn
  /\ UNCHANGED <<wfIsInitialized, wfNextId, responses, pendingRequests, dispatches,
                 followUps, escalationsFile, workflowFiles>>
  /\ UNCHANGED <<uvars, gvars, lvars, pvars, evars>>

\* archiveWorkflow's writeJson completes, errors swallowed (lines 1196-1209), and
\* triggerWorkflow returns the result (lines 697-698)
ArchiveReturns(w, ok) ==
  /\ wfCalls[w] = "archiving"
  /\ workflowFiles' = IF ok THEN workflowFiles \cup {w} ELSE workflowFiles
  /\ wfCalls' = [wfCalls EXCEPT ![w] = "done"]
  /\ wfReturned' = WfReturn("trigger", w, workflows[w].result.success,
                            workflows[w].result.reason)
  /\ UNCHANGED <<wfIsInitialized, wfNextId, workflows, activeWorkflows, workflowHistory,
                 responses, pendingRequests, dispatches, followUps, escalationsFile>>
  /\ UNCHANGED <<uvars, gvars, lvars, pvars, evars>>

\* the monitor's timer expires: handleResponseTimeout (lines 1113-1132); the
\* result of sendFollowUpRequest (lines 373-422) is dropped
handleResponseTimeout(w) ==
  /\ workflows[w].monitor = "armed"
  /\ IF w \in activeWorkflows
     THEN /\ workflows' = [workflows EXCEPT
               ![w] = [addWorkflowStep(@, "response_timeout", "failed")
                         EXCEPT !.monitor = "fired"]]
          /\ followUps' = [followUps EXCEPT ![w] = @ + 1]
          /\ dispatches' = [dispatches EXCEPT ![w] = @ + 1]
     ELSE /\ workflows' = [workflows EXCEPT ![w].monitor = "fired"]
          /\ UNCHANGED <<followUps, dispatches>>
  /\ wfReturned' = NoWfReturn
  /\ UNCHANGED <<wfIsInitialized, wfNextId, activeWorkflows, workflowHistory, wfCalls,
                 responses, pendingRequests, escalationsFile, workflowFiles>>
  /\ UNCHANGED <<uvars, gvars, lvars, pvars, evars>>

\* the processResponse calls that found workflow w active
ResponsesSeen(w) ==
  Cardinality({i \in 1..Len(workflows[w].steps) :
                 workflows[w].steps[i] = <<"processing_response", "in_progress">>})

\* processResponse up to its await (lines 1140-1150)
processResponse(w) ==
  /\ w <= wfNextId
  /\ responses[w] = "none"
  /\ ResponsesSeen(w) < MaxResponses
  /\ IF w \in activeWorkflows
     THEN /\ workflows' = [workflows EXCEPT
               ![w] = addWorkflowStep(@, "processing_response", "in_progress")]
          /\ responses' = [responses EXCEPT ![w] = "processing"]
          /\ wfReturned' = NoWfReturn
     ELSE /\ wfReturned' = WfReturn("processResponse", w, FALSE, "workflow not found")
          /\ UNCHANGED <<workflows, responses>>
  /\ UNCHANGED <<wfIsInitialized, wfNextId, activeWorkflows, workflowHistory, wfCalls,
                 pendingRequests, dispatches, followUps, escalationsFile, workflowFiles>>
  /\ UNCHANGED <<uvars, gvars, lvars, pvars, evars>>

\* informationProcessor.processReceivedInformation completes (lines 1150-1173)
ProcessingReturns(w, ok) ==
  /\ responses[w] = "processing"
  /\ responses' = [responses EXCEPT ![w] = "none"]
  /\ workflows' = [workflows EXCEPT
       ![w] = IF ok
              THEN [addWorkflowStep(@, "processing_response", "completed")
                      EXCEPT !.status = "response_received"]
              ELSE addWorkflowStep(@, "processing_response", "failed")]
  /\ wfReturned' = WfReturn("processResponse", w, ok,
                            IF ok THEN "ready_for_integration" ELSE "processing_failed")
  /\ UNCHANGED <<wfIsInitialized, wfNextId, activeWorkflows, workflowHistory, wfCalls,
                 pendingRequests, dispatches, followUps, escalationsFile, workflowFiles>>
  /\ UNCHANGED <<uvars, gvars, lvars, pvars, evars>>

\* CommunicationManager.processIncomingResponse (lines 512-539)
processIncomingResponse(w) ==
  /\ w <= wfNextId
  /\ IF w \in pendingRequests
     THEN /\ pendingRequests' = pendingRequests \ {w}
          /\ wfReturned' = WfReturn("processIncomingResponse", w, TRUE, "responded")
     ELSE /\ wfReturned' = WfReturn("processIncomingResponse", w, FALSE, "request not found")
          /\ UNCHANGED pendingRequests
  /\ UNCHANGED <<wfIsInitialized, wfNextId, workflows, activeWorkflows, workflowHistory,
                 wfCalls, responses, dispatches, followUps, escalationsFile, workflowFiles>>
  /\ UNCHANGED <<uvars, gvars, lvars, pvars, evars>>

\* AgentWorkflowManager.close (lines 1248-1259): only the timers of the
\* workflows still active are cleared
close ==
  /\ workflows' = [w \in WorkflowIds |->
                     IF w \in activeWorkflows /\ workflows[w].monitor = "armed"
                     THEN [workflows[w] EXCEPT !.monitor = "cleared"]
                     ELSE workflows[w]]
  /\ activeWorkflows' = {}
  /\ wfIsInitialized' = FALSE
  /\ wfReturned' = NoWfReturn
  /\ UNCHANGED <<wfNextId, workflowHistory, wfCalls, responses, pendingRequests,
                 dispatches, followUps, escalationsFile, workflowFiles>>
  /\ UNCHANGED <<uvars, gvars, lvars, pvars, evars>>

\* ------------------------------------------------------------------ strings
\* strings are sequences of characters, so that includes, split and
\* toLowerCase act on them as they do on the strings of the code
UpperCase == <<"A", "B", "C", "D", "E", "F", "G", "H", "I", "J", "K", "L", "M", "N", "O", "P", "Q", "R", "S", "T", "U", "V", "W", "X", "Y", "Z">>

LowerCase == <<"a", "b", "c", "d", "e", "f", "g", "h", "i", "j", "k", "l", "m", "n", "o", "p", "q", "r", "s", "t", "u", "v", "w", "x", "y", "z">>

\* String.prototype.toLowerCase
toLowerCase(s) ==
  [i \in 1..Len(s) |->
     IF \E k \in 1..Len(UpperCase) : UpperCase[k] = s[i]
     THEN LowerCase[CHOOSE k \in 1..Len(UpperCase) : UpperCase[k] = s[i]]
     ELSE s[i]]

\* String.prototype.includes
includes(s, t) == \E i \in 0..(Len(s) - Len(t)) : SubSeq(s, i + 1, i + Len(t)) = t

\* String.prototype.split(' ')
RECURSIVE split(_)
split(s) ==
  IF \A i \in 1..Len(s) : s[i] # " "
  THEN <<s>>
  ELSE LET i == CHOOSE k \in 1..Len(s) : s[k] = " " /\ \A j \in 1..(k - 1) : s[j] # " "
       IN <<SubSeq(s, 1, i - 1)>> \o split(SubSeq(s, i + 1, Len(s)))

\* Array.prototype.join(' ')
RECURSIVE join(_)
join(words) ==
  IF Len(words) = 0 THEN <<>>
  ELSE IF Len(words) = 1 THEN words[1]
  ELSE words[1] \o <<" ">> \o join(Tail(words))

\* Array.prototype.slice(0, n)
slice(a, n) == SubSeq(a, 1, IF Len(a) < n THEN Len(a) ELSE n)

\* ------------------------------------------------------ KnowledgeGapDetector
SimilarityThreshold == 75
GapHistoryLimit == 1000

\* metadata.created_at and metadata.updated_at of a stored document, by where
\* the date lies: "" when the field is missing, "old" at or before six months
\* ago, "recent" after it; the store sets updated_at on every write
Metadatas ==
  {[created_at |-> "", updated_at |-> ""],
   [created_at |-> "", updated_at |-> "recent"],
   [created_at |-> "old", updated_at |-> "old"],
   [created_at |-> "old", updated_at |-> "recent"],
   [created_at |-> "recent", updated_at |-> "recent"]}

\* a retrieved document: similarity in hundredths, and its metadata
Docs == [similarity : {70, 75}, metadata : Metadatas]

RetrievedDocs == UNION {[1..n -> Docs] : n \in 0..MaxDocs}

\* the queries analyzeKnowledgeGap is called with
GapQueryTexts ==
   \* "Current leave policy"
  [CurrentLeavePolicy |-> <<"C", "u", "r", "r", "e", "n", "t", " ", "l", "e", "a", "v", "e", " ", "p", "o", "l", "i", "c", "y">>,
   \* "leave policy"
   LeavePolicy |-> <<"l", "e", "a", "v", "e", " ", "p", "o", "l", "i", "c", "y">>]

Queries == {GapQueryTexts[name] : name \in DOMAIN GapQueryTexts}

dateSensitiveKeywords ==
  {<<"c", "u", "r", "r", "e", "n", "t">>,
   <<"l", "a", "t", "e", "s", "t">>,
   <<"r", "e", "c", "e", "n", "t">>,
   <<"n", "o", "w">>,
   <<"t", "o", "d", "a", "y">>,
   <<"t", "h", "i", "s", " ", "y", "e", "a", "r">>,
   <<"n", "e", "w">>,
   <<"u", "p", "d", "a", "t", "e", "d">>,
   <<"c", "h", "a", "n", "g", "e", "s">>,
   <<"s", "t", "a", "t", "u", "s">>,
   <<"a", "c", "t", "i", "v", "e">>,
   <<"a", "v", "a", "i", "l", "a", "b", "l", "e">>,
   <<"o", "p", "e", "n">>}

\* isDateSensitiveQuery (lines 267-275)
isDateSensitiveQuery(query) ==
  LET queryLower == toLowerCase(query)
  IN \E keyword \in dateSensitiveKeywords : includes(queryLower, keyword)

\* isDocumentRecent (lines 282-294): docDate > sixMonthsAgo
isDocumentRecent(dateString) ==
  IF dateString = "" THEN FALSE ELSE dateString = "recent"

\* generateSuggestedQueries (lines 301-322)
generateSuggestedQueries(query) ==
  LET words == split(query)
      departments == <<<<"H", "R">>, <<"I", "T">>, <<"A", "d", "m", "i", "n">>, <<"F", "i", "n", "a", "n", "c", "e">>>>
      suggestions ==
        <<query \o <<" ", "p", "o", "l", "i", "c", "y">>, query \o <<" ", "p", "r", "o", "c", "e", "d", "u", "r", "e">>, query \o <<" ", "g", "u", "i", "d", "e">>>>
        \o (IF Len(words) > 2 THEN <<join(SubSeq(words, 1, Len(words) - 1))>> ELSE <<>>)
        \o [d \in 1..Len(departments) |-> departments[d] \o <<" ">> \o query]
  IN slice(suggestions, 5)

Analysis(hasGap, confidence, gapType, suggestedQueries, expertContactNeeded, origin) ==
  [hasGap |-> hasGap, confidence |-> confidence, gapType |-> gapType,
   suggestedQueries |-> suggestedQueries,
   expertContactNeeded |-> expertContactNeeded, origin |-> origin]

NoAnalysis == Analysis(FALSE, 0, "none", <<>>, FALSE, "none")

Max(S) == CHOOSE x \in S : \A y \in S : y <= x

\* a quick check without the branch for an empty retrieval
performQuickGapCheck_NoEmptyCase(query, retrievedDocs) ==
  IF Len(retrievedDocs) = 0
  THEN Analysis(TRUE, 80, "low_relevance", generateSuggestedQueries(query), TRUE, "quickCheck")
  ELSE IF Max({retrievedDocs[i].similarity : i \in 1..Len(retrievedDocs)}) < SimilarityThreshold
  THEN Analysis(TRUE, 80, "low_relevance", generateSuggestedQueries(query), TRUE, "quickCheck")
  ELSE IF isDateSensitiveQuery(query)
          /\ LET hasRecentDocs ==
                   \E i \in 1..Len(retrievedDocs) :
                      LET metadata == retrievedDocs[i].metadata
                      IN isDocumentRecent(IF metadata.created_at # "" THEN metadata.created_at
                                          ELSE metadata.updated_at)
             IN ~hasRecentDocs
  THEN Analysis(TRUE, 75, "outdated_info",
                <<<<"R", "e", "c", "e", "n", "t", " ">> \o query, <<"L", "a", "t", "e", "s", "t", " ">> \o query, <<"C", "u", "r", "r", "e", "n", "t", " ">> \o query>>, TRUE, "quickCheck")
  ELSE Analysis(FALSE, 80, "none", <<>>, FALSE, "quickCheck")

\* performQuickGapCheck (lines 101-154)
performQuickGapCheck(query, retrievedDocs) ==
  IF Len(retrievedDocs) = 0
  THEN Analysis(TRUE, 95, "no_documents", generateSuggestedQueries(query), TRUE, "quickCheck")
  ELSE IF Max({retrievedDocs[i].similarity : i \in 1..Len(retrievedDocs)}) < SimilarityThreshold
  THEN Analysis(TRUE, 80, "low_relevance", generateSuggestedQueries(query), TRUE, "quickCheck")
  ELSE IF isDateSensitiveQuery(query)
          /\ LET hasRecentDocs ==
                   \E i \in 1..Len(retrievedDocs) :
                      LET metadata == retrievedDocs[i].metadata
                      IN isDocumentRecent(IF metadata.created_at # "" THEN metadata.created_at
                                          ELSE metadata.updated_at)
             IN ~hasRecentDocs
  THEN Analysis(TRUE, 75, "outdated_info",
                <<<<"R", "e", "c", "e", "n", "t", " ">> \o query, <<"L", "a", "t", "e", "s", "t", " ">> \o query, <<"C", "u", "r", "r", "e", "n", "t", " ">> \o query>>, TRUE, "quickCheck")
  ELSE Analysis(FALSE, 80, "none", <<>>, FALSE, "quickCheck")

\* the suggestedQueries field of a reply of the model: missing or not an
\* array, or an array of six queries
ReplySuggestions ==
  {[isArray |-> FALSE, items |-> <<>>],
   [isArray |-> TRUE, items |-> [k \in 1..6 |-> GapQueryTexts.LeavePolicy]]}

\* what the model answers: it throws, answers without JSON, answers JSON
\* without a required field, or answers a JSON analysis
LlmReplies ==
  [kind : {"throws", "no_json", "missing_field"}, hasGap : {FALSE}, confidence : {0},
   gapType : {"none"}, suggestedQueries : {[isArray |-> FALSE, items |-> <<>>]},
   expertContactNeeded : {FALSE}]
  \cup
  [kind : {"json"}, hasGap : BOOLEAN, confidence : {0, 60, 150},
   gapType : {"partial_info"}, suggestedQueries : ReplySuggestions,
   expertContactNeeded : BOOLEAN]

\* Math.max(0, Math.min(1, Number(confidence) || 0.5)), in hundredths
normalizeConfidence(confidence) ==
  LET c == IF confidence = 0 THEN 50 ELSE confidence
  IN IF c < 0 THEN 0 ELSE IF c > 100 THEN 100 ELSE c

parseGapAnalysisResponse(reply) ==
  IF reply.kind = "json"
  THEN Analysis(reply.hasGap, normalizeConfidence(reply.confidence), reply.gapType,
                IF reply.suggestedQueries.isArray
                THEN slice(reply.suggestedQueries.items, 5) ELSE <<>>,
                reply.expertContactNeeded, "parsed")
  ELSE Analysis(FALSE, 50, "parse_error", <<>>, FALSE, "parsed")

performDetailedGapAnalysis(query, reply, retrievedDocs) ==
  IF reply.kind = "throws"
  THEN Analysis(Len(retrievedDocs) = 0, 50, "analysis_error",
                generateSuggestedQueries(query), FALSE, "fallback")
  ELSE [parseGapAnalysisResponse(reply) EXCEPT !.origin = "detailedAnalysis"]

\* the frame of an analyzeKnowledgeGap call; response is the kind of reply the
\* model gave, once it has given one
NoGapCall == [pc |-> "none", query |-> <<>>, docs |-> <<>>,
              response |-> "none", analysis |-> NoAnalysis]

GapCall(pc, query, docs, analysis) ==
  [pc |-> pc, query |-> query, docs |-> docs, response |-> "none", analysis |-> analysis]

NoGapReturn ==
  [op |-> "none", id |-> 0, query |-> <<>>, docs |-> <<>>, response |-> "none", threw |-> FALSE,
   analysis |-> NoAnalysis]

GapReturn(c, call, threw, analysis) ==
  [op |-> "analyze", id |-> c, query |-> call.query, docs |-> call.docs, response |-> call.response,
   threw |-> threw, analysis |-> analysis]

\* an analysis that asks the model whatever the quick check found
QuickCheckStage_AlwaysAsksModel(c, call) ==
  /\ gapCalls' = [gapCalls EXCEPT ![c] = [call EXCEPT !.pc = "llm"]]
  /\ llmCalls' = [llmCalls EXCEPT ![c] = @ + 1]
  /\ gapReturned' = NoGapReturn

\* analyzeKnowledgeGap from the quick check to its next await (lines 57-64)
QuickCheckStage(c, call) ==
  LET quickGapCheck == performQuickGapCheck(call.query, call.docs)
  IN IF quickGapCheck.hasGap
     THEN /\ gapCalls' = [gapCalls EXCEPT ![c] = NoGapCall]
          /\ gapReturned' = GapReturn(c, call, FALSE, quickGapCheck)
          /\ UNCHANGED llmCalls
     ELSE /\ gapCalls' = [gapCalls EXCEPT ![c] = [call EXCEPT !.pc = "llm"]]
          /\ llmCalls' = [llmCalls EXCEPT ![c] = @ + 1]
          /\ gapReturned' = NoGapReturn

\* analyzeKnowledgeGap up to its first await (lines 49-64)
analyzeKnowledgeGap(query, retrievedDocs) ==
  /\ gapNextId < MaxAnalyses
  /\ LET c == gapNextId + 1
         call == GapCall("none", query, retrievedDocs, NoAnalysis)
     IN /\ gapNextId' = c
        /\ IF gapIsInitialized
           THEN QuickCheckStage(c, call)
           ELSE /\ gapCalls' = [gapCalls EXCEPT ![c] = [call EXCEPT !.pc = "initializing"]]
                /\ gapReturned' = NoGapReturn
                /\ UNCHANGED llmCalls
  /\ UNCHANGED <<gapIsInitialized, gapHistory, gapLogFile>>
  /\ UNCHANGED <<uvars, wvars, lvars, pvars, evars>>

\* initialize completes (lines 22-41); its error leaves analyzeKnowledgeGap,
\* which awaits it outside its try block (lines 50-52)
GapInitializeReturns(c, ok) ==
  /\ gapCalls[c].pc = "initializing"
  /\ IF ok
     THEN /\ gapIsInitialized' = TRUE
          /\ QuickCheckStage(c, gapCalls[c])
     ELSE /\ gapCalls' = [gapCalls EXCEPT ![c] = NoGapCall]
          /\ gapReturned' = GapReturn(c, gapCalls[c], TRUE, NoAnalysis)
          /\ UNCHANGED <<gapIsInitialized, llmCalls>>
  /\ UNCHANGED <<gapNextId, gapHistory, gapLogFile>>
  /\ UNCHANGED <<uvars, wvars, lvars, pvars, evars>>

\* a history that never evicts
recordedHistory_NoEviction(history, analysis) == Append(history, analysis)

\* recordGapAnalysis up to its await (lines 331-342)
recordedHistory(history, analysis) ==
  LET h == Append(history, analysis)
  IN IF Len(h) > GapHistoryLimit THEN Tail(h) ELSE h

\* llm.invoke completes (lines 162-210); the analysis is completed and
\* recorded (lines 64-77)
LlmReturns(c, reply) ==
  /\ gapCalls[c].pc = "llm"
  /\ LET finalAnalysis == performDetailedGapAnalysis(gapCalls[c].query, reply, gapCalls[c].docs)
     IN /\ gapHistory' = recordedHistory(gapHistory, finalAnalysis)
        /\ gapCalls' = [gapCalls EXCEPT ![c] = [@ EXCEPT !.pc = "recording",
                                                        !.response = reply.kind,
                                                        !.analysis = finalAnalysis]]
  /\ gapReturned' = NoGapReturn
  /\ UNCHANGED <<gapIsInitialized, gapNextId, gapLogFile, llmCalls>>
  /\ UNCHANGED <<uvars, wvars, lvars, pvars, evars>>

\* recordGapAnalysis's appendFile completes, errors swallowed (lines 346-352),
\* and analyzeKnowledgeGap returns the analysis (line 79)
RecordReturns(c, ok) ==
  /\ gapCalls[c].pc = "recording"
  /\ gapLogFile' = IF ok THEN Append(gapLogFile, gapCalls[c].analysis) ELSE gapLogFile
  /\ gapCalls' = [gapCalls EXCEPT ![c] = NoGapCall]
  /\ gapReturned' = GapReturn(c, gapCalls[c], FALSE, gapCalls[c].analysis)
  /\ UNCHANGED <<gapIsInitialized, gapNextId, gapHistory, llmCalls>>
  /\ UNCHANGED <<uvars, wvars, lvars, pvars, evars>>

\* KnowledgeGapDetector.close (lines 395-398)
gapClose ==
  /\ gapIsInitialized
  /\ gapIsInitialized' = FALSE
  /\ gapReturned' = NoGapReturn
  /\ UNCHANGED <<gapNextId, gapCalls, gapHistory, gapLogFile, llmCalls>>
  /\ UNCHANGED <<uvars, wvars, lvars, pvars, evars>>

\* ------------------------------------------------------------ ContactLocator
\* the words of the keyword table, of the domain names and of the queries
Words ==
  [hr |-> <<"h", "r">>,
   human |-> <<"h", "u", "m", "a", "n">>,
   resources |-> <<"r", "e", "s", "o", "u", "r", "c", "e", "s">>,
   employee |-> <<"e", "m", "p", "l", "o", "y", "e", "e">>,
   staff |-> <<"s", "t", "a", "f", "f">>,
   leave |-> <<"l", "e", "a", "v", "e">>,
   vacation |-> <<"v", "a", "c", "a", "t", "i", "o", "n">>,
   policy |-> <<"p", "o", "l", "i", "c", "y">>,
   payroll |-> <<"p", "a", "y", "r", "o", "l", "l">>,
   benefits |-> <<"b", "e", "n", "e", "f", "i", "t", "s">>,
   recruitment |-> <<"r", "e", "c", "r", "u", "i", "t", "m", "e", "n", "t">>,
   hiring |-> <<"h", "i", "r", "i", "n", "g">>,
   it |-> <<"i", "t">>,
   technology |-> <<"t", "e", "c", "h", "n", "o", "l", "o", "g", "y">>,
   computer |-> <<"c", "o", "m", "p", "u", "t", "e", "r">>,
   software |-> <<"s", "o", "f", "t", "w", "a", "r", "e">>,
   hardware |-> <<"h", "a", "r", "d", "w", "a", "r", "e">>,
   network |-> <<"n", "e", "t", "w", "o", "r", "k">>,
   wifi |-> <<"w", "i", "f", "i">>,
   password |-> <<"p", "a", "s", "s", "w", "o", "r", "d">>,
   access |-> <<"a", "c", "c", "e", "s", "s">>,
   system |-> <<"s", "y", "s", "t", "e", "m">>,
   server |-> <<"s", "e", "r", "v", "e", "r">>,
   email |-> <<"e", "m", "a", "i", "l">>,
   finance |-> <<"f", "i", "n", "a", "n", "c", "e">>,
   financial |-> <<"f", "i", "n", "a", "n", "c", "i", "a", "l">>,
   money |-> <<"m", "o", "n", "e", "y">>,
   budget |-> <<"b", "u", "d", "g", "e", "t">>,
   expense |-> <<"e", "x", "p", "e", "n", "s", "e">>,
   cost |-> <<"c", "o", "s", "t">>,
   payment |-> <<"p", "a", "y", "m", "e", "n", "t">>,
   invoice |-> <<"i", "n", "v", "o", "i", "c", "e">>,
   accounting |-> <<"a", "c", "c", "o", "u", "n", "t", "i", "n", "g">>,
   revenue |-> <<"r", "e", "v", "e", "n", "u", "e">>,
   admin |-> <<"a", "d", "m", "i", "n">>,
   administration |-> <<"a", "d", "m", "i", "n", "i", "s", "t", "r", "a", "t", "i", "o", "n">>,
   office |-> <<"o", "f", "f", "i", "c", "e">>,
   facility |-> <<"f", "a", "c", "i", "l", "i", "t", "y">>,
   building |-> <<"b", "u", "i", "l", "d", "i", "n", "g">>,
   meeting |-> <<"m", "e", "e", "t", "i", "n", "g">>,
   room |-> <<"r", "o", "o", "m">>,
   booking |-> <<"b", "o", "o", "k", "i", "n", "g">>,
   supplies |-> <<"s", "u", "p", "p", "l", "i", "e", "s">>,
   legal |-> <<"l", "e", "g", "a", "l">>,
   contract |-> <<"c", "o", "n", "t", "r", "a", "c", "t">>,
   agreement |-> <<"a", "g", "r", "e", "e", "m", "e", "n", "t">>,
   compliance |-> <<"c", "o", "m", "p", "l", "i", "a", "n", "c", "e">>,
   regulation |-> <<"r", "e", "g", "u", "l", "a", "t", "i", "o", "n">>,
   law |-> <<"l", "a", "w">>,
   terms |-> <<"t", "e", "r", "m", "s">>,
   privacy |-> <<"p", "r", "i", "v", "a", "c", "y">>,
   operations |-> <<"o", "p", "e", "r", "a", "t", "i", "o", "n", "s">>,
   process |-> <<"p", "r", "o", "c", "e", "s", "s">>,
   procedure |-> <<"p", "r", "o", "c", "e", "d", "u", "r", "e">>,
   workflow |-> <<"w", "o", "r", "k", "f", "l", "o", "w">>,
   business |-> <<"b", "u", "s", "i", "n", "e", "s", "s">>,
   project |-> <<"p", "r", "o", "j", "e", "c", "t">>,
   management |-> <<"m", "a", "n", "a", "g", "e", "m", "e", "n", "t">>,
   tech |-> <<"t", "e", "c", "h">>,
   general |-> <<"g", "e", "n", "e", "r", "a", "l">>]

\* the queries findExpert is called with
QueryTexts ==
   \* "WiFi password"
  [WifiPassword |-> <<"W", "i", "F", "i", " ", "p", "a", "s", "s", "w", "o", "r", "d">>,
   \* "leave policy"
   LeavePolicy |-> <<"l", "e", "a", "v", "e", " ", "p", "o", "l", "i", "c", "y">>,
   \* "budget"
   Budget |-> <<"b", "u", "d", "g", "e", "t">>,
   \* "facility"
   Facility |-> <<"f", "a", "c", "i", "l", "i", "t", "y">>,
   \* "recruitment"
   Recruitment |-> <<"r", "e", "c", "r", "u", "i", "t", "m", "e", "n", "t">>,
   \* "room budget"
   RoomBudget |-> <<"r", "o", "o", "m", " ", "b", "u", "d", "g", "e", "t">>,
   \* "hello"
   Hello |-> <<"h", "e", "l", "l", "o">>,
   \* ""
   Empty |-> <<>>,
   \* "IT"
   It |-> <<"I", "T">>,
   \* "contract law"
   ContractLaw |-> <<"c", "o", "n", "t", "r", "a", "c", "t", " ", "l", "a", "w">>,
   \* "pay"
   Pay |-> <<"p", "a", "y">>,
   \* "it  is"
   ItIs |-> <<"i", "t", " ", " ", "i", "s">>,
   \* "network cost"
   NetworkCost |-> <<"n", "e", "t", "w", "o", "r", "k", " ", "c", "o", "s", "t">>]

LocatorQueries == {QueryTexts[name] : name \in DOMAIN QueryTexts}

\* expertise terms and department names as the directory spells them
DirectoryTerms ==
   \* "WiFi"
  [WiFi |-> <<"W", "i", "F", "i">>,
   \* "Network"
   Network |-> <<"N", "e", "t", "w", "o", "r", "k">>,
   \* "IT Support"
   ITSupport |-> <<"I", "T", " ", "S", "u", "p", "p", "o", "r", "t">>,
   \* "Finance"
   Finance |-> <<"F", "i", "n", "a", "n", "c", "e">>,
   \* "Marketing"
   Marketing |-> <<"M", "a", "r", "k", "e", "t", "i", "n", "g">>]

domainKeywords ==
  [hr |-> {Words.hr, Words.human, Words.resources, Words.employee, Words.staff, Words.leave, Words.vacation, Words.policy,
      Words.payroll, Words.benefits, Words.recruitment, Words.hiring},
   it |-> {Words.it, Words.technology, Words.computer, Words.software, Words.hardware, Words.network, Words.wifi,
      Words.password, Words.access, Words.system, Words.server, Words.email},
   finance |-> {Words.finance, Words.financial, Words.money, Words.budget, Words.expense, Words.cost, Words.payment,
      Words.invoice, Words.accounting, Words.revenue},
   admin |-> {Words.admin, Words.administration, Words.office, Words.facility, Words.building, Words.meeting, Words.room,
      Words.booking, Words.supplies},
   legal |-> {Words.legal, Words.contract, Words.agreement, Words.compliance, Words.regulation, Words.law, Words.terms,
      Words.privacy},
   operations |-> {Words.operations, Words.process, Words.procedure, Words.workflow, Words.business, Words.project,
      Words.management},
   general |-> {}]

domainName ==
  [hr |-> Words.hr, it |-> Words.it, finance |-> Words.finance, admin |-> Words.admin, legal |-> Words.legal,
   operations |-> Words.operations, general |-> Words.general]

\* Object.entries(domainKeywords): the taxonomy in its declaration order
DomainOrder == <<"hr", "it", "finance", "admin", "legal", "operations", "general">>

Domains == {DomainOrder[i] : i \in 1..Len(DomainOrder)}

\* the keywords of the query that match a word of the domain, either containing
\* the other (lines 595-599)
DomainMatches(keywords, domain) ==
  Cardinality({i \in 1..Len(keywords) :
                 \E domainWord \in domainKeywords[domain] :
                   \/ includes(keywords[i], domainWord)
                   \/ includes(domainWord, keywords[i])})

\* the loop of analyzeQueryDomain over the entries from the i-th on (lines 594-605)
RECURSIVE bestDomainFrom(_, _, _, _, _)
bestDomainFrom(entries, i, bestDomain, maxMatches, keywords) ==
  IF i > Len(entries)
  THEN bestDomain
  ELSE LET matches == DomainMatches(keywords, entries[i])
       IN IF matches > maxMatches
          THEN bestDomainFrom(entries, i + 1, entries[i], matches, keywords)
          ELSE bestDomainFrom(entries, i + 1, bestDomain, maxMatches, keywords)

queryKeywords(query) ==
  LET IsKeyword(word) == Len(word) > 2
  IN SelectSeq(split(toLowerCase(query)), IsKeyword)

\* a classification that goes through the taxonomy from its end
analyzeQueryDomain_LastDeclaredWins(query) ==
  LET keywords == queryKeywords(query)
      reversed == [i \in 1..Len(DomainOrder) |-> DomainOrder[Len(DomainOrder) + 1 - i]]
  IN [domain |-> bestDomainFrom(reversed, 1, "general", 0, keywords), keywords |-> keywords]

analyzeQueryDomain(query) ==
  LET keywords == queryKeywords(query)
  IN [domain |-> bestDomainFrom(DomainOrder, 1, "general", 0, keywords), keywords |-> keywords]

\* an expert of the expertise map; responseTime 0 stands for none declared,
\* matchScore -1 for a contact that was not scored
Expert(id, domain, type, responseTime, expertise) ==
  [id |-> id, domain |-> domain, type |-> type, responseTime |-> responseTime,
   expertise |-> expertise, matchScore |-> -1]

NoExpert == Expert(<<"none", "none">>, "none", "none", 0, <<>>)

\* the contact built from employeeDirectory.defaultContacts[contact] for a domain
DefaultContact(domain, contact) ==
  Expert(<<"default", domain, contact>>, domain, "default_contact", 240, <<domainName[domain]>>)

\* the keywords that match an expertise term of the expert (lines 630-634)
matchScore(expert, keywords) ==
  Cardinality({i \in 1..Len(keywords) :
                 \E j \in 1..Len(expert.expertise) :
                   \/ includes(toLowerCase(expert.expertise[j]), keywords[i])
                   \/ includes(keywords[i], toLowerCase(expert.expertise[j]))})

\* a.responseTime || 999
declaredResponseTime(expert) == IF expert.responseTime = 0 THEN 999 ELSE expert.responseTime

\* the comparator of the sort is negative (lines 643-648)
SortsBefore(a, b) ==
  \/ a.matchScore > b.matchScore
  \/ a.matchScore = b.matchScore /\ declaredResponseTime(a) < declaredResponseTime(b)

\* a selection that sorts by match score alone
findExpertByDomain_IgnoresResponseTime(domain, keywords) ==
  LET experts == expertiseMap[domain]
      scoredExperts ==
        [i \in 1..Len(experts) |->
           [experts[i] EXCEPT !.matchScore = matchScore(experts[i], keywords)]]
  IN IF Len(experts) = 0
     THEN NoExpert
     ELSE scoredExperts[CHOOSE i \in 1..Len(experts) :
                          \A j \in 1..Len(experts) :
                            /\ scoredExperts[j].matchScore <= scoredExperts[i].matchScore
                            /\ j < i =>
                                 scoredExperts[j].matchScore < scoredExperts[i].matchScore]

\* findExpertByDomain (lines 618-656): the first expert of the stable sort
findExpertByDomain(domain, keywords) ==
  LET experts == expertiseMap[domain]
      scoredExperts ==
        [i \in 1..Len(experts) |->
           [experts[i] EXCEPT !.matchScore = matchScore(experts[i], keywords)]]
  IN IF Len(experts) = 0
     THEN NoExpert
     ELSE scoredExperts[CHOOSE i \in 1..Len(experts) :
                          \A j \in 1..Len(experts) :
                            /\ ~SortsBefore(scoredExperts[j], scoredExperts[i])
                            /\ j < i => SortsBefore(scoredExperts[i], scoredExperts[j])]

\* getDefaultContact (lines 664-694): hr and it have their own default, every
\* other domain and every missing default falls back to admin
getDefaultContact(domain) ==
  LET mapped == IF domain \in {"hr", "it"} THEN domain ELSE "admin"
  IN IF mapped \in defaultContacts
     THEN DefaultContact(domain, mapped)
     ELSE IF "admin" \in defaultContacts
     THEN DefaultContact(domain, "admin")
     ELSE NoExpert

\* mapDepartmentToDomain (lines 766-786)
mapDepartmentToDomain(department) ==
  LET departmentLower == toLowerCase(department)
  IN IF includes(departmentLower, Words.hr) \/ includes(departmentLower, Words.human)
     THEN "hr"
     ELSE IF includes(departmentLower, Words.it) \/ includes(departmentLower, Words.tech)
     THEN "it"
     ELSE IF includes(departmentLower, Words.finance) \/ includes(departmentLower, Words.accounting)
     THEN "finance"
     ELSE IF includes(departmentLower, Words.admin) \/ includes(departmentLower, Words.operations)
     THEN "admin"
     ELSE IF includes(departmentLower, Words.legal)
     THEN "legal"
     ELSE "general"

\* the employees the directory API may answer with; response_time 0 stands for
\* none given
Employees ==
  {[id |-> "emp1", department |-> DirectoryTerms.ITSupport, hasEmail |-> TRUE, response_time |-> 30,
    expertise |-> <<DirectoryTerms.WiFi>>],
   [id |-> "emp2", department |-> DirectoryTerms.Finance, hasEmail |-> TRUE, response_time |-> 0,
    expertise |-> <<Words.budget>>],
   [id |-> "emp3", department |-> DirectoryTerms.Marketing, hasEmail |-> FALSE, response_time |-> 30,
    expertise |-> <<Words.budget>>]}

\* the outcome of loading the directory: it fails, or it answers a list
DirectoryReplies ==
  {[ok |-> FALSE, employees |-> <<>>]}
  \cup {[ok |-> TRUE, employees |-> employees] :
          employees \in UNION {[1..n -> Employees] : n \in 0..1}}

NoExperts == [domain \in Domains |-> <<>>]

\* processEmployeeDirectory (lines 730-759)
RECURSIVE processEmployeeDirectory(_, _, _)
processEmployeeDirectory(employees, i, map) ==
  IF i > Len(employees)
  THEN map
  ELSE LET employee == employees[i]
           domain == mapDepartmentToDomain(employee.department)
           expert == Expert(<<"employee", employee.id>>, domain, "employee",
                            IF employee.response_time = 0 THEN 240
                            ELSE employee.response_time,
                            employee.expertise)
       IN IF ~employee.hasEmail
          THEN processEmployeeDirectory(employees, i + 1, map)
          ELSE processEmployeeDirectory(employees, i + 1,
                                        [map EXCEPT ![domain] = Append(@, expert)])

\* initializeExpertiseMap (lines 791-809) sets the list of hr, it and admin to
\* their default contact
initializeExpertiseMap(map) ==
  [domain \in Domains |->
     IF domain \in {"hr", "it", "admin"} /\ domain \in defaultContacts
     THEN <<DefaultContact(domain, domain)>>
     ELSE map[domain]]

\* the experts registered at run time
ExpertsToAdd ==
  {Expert(<<"expert", "e1">>, "it", "employee", responseTime, expertise) :
     responseTime \in {0, 30, 240}, expertise \in {<<DirectoryTerms.WiFi>>, <<DirectoryTerms.Network, Words.password>>}}
  \cup {Expert(<<"expert", "e2">>, "it", "employee", 30, <<DirectoryTerms.WiFi>>)}

NoLocReturn == [op |-> "none", query |-> <<>>, domain |-> "none", keywords |-> <<>>,
                expert |-> NoExpert]

\* ContactLocator.initialize (lines 515-533)
locatorInitialize(reply) ==
  /\ ~locIsInitialized
  /\ expertiseMap' =
       initializeExpertiseMap(
         IF reply.ok
         THEN processEmployeeDirectory(reply.employees, 1, NoExperts)
         ELSE expertiseMap)
  /\ locIsInitialized' = TRUE
  /\ locReturned' = NoLocReturn
  /\ UNCHANGED defaultContacts
  /\ UNCHANGED <<uvars, wvars, gvars, pvars, evars>>

\* addExpert (lines 815-836)
addExpert(expert) ==
  LET experts == expertiseMap[expert.domain]
      existing == {i \in 1..Len(experts) : experts[i].id = expert.id}
  IN /\ existing # {} \/ Len(experts) < MaxExperts
     /\ expertiseMap' =
          [expertiseMap EXCEPT
             ![expert.domain] =
               IF existing # {}
               THEN [experts EXCEPT ![CHOOSE i \in existing : \A j \in existing : i <= j] =
                                      expert]
               ELSE Append(experts, expert)]
     /\ locReturned' = NoLocReturn
     /\ UNCHANGED <<locIsInitialized, defaultContacts>>
     /\ UNCHANGED <<uvars, wvars, gvars, pvars, evars>>

\* findExpert (lines 541-567)
findExpert(query) ==
  LET queryAnalysis == analyzeQueryDomain(query)
      found == findExpertByDomain(queryAnalysis.domain, queryAnalysis.keywords)
      expert == IF found = NoExpert THEN getDefaultContact(queryAnalysis.domain) ELSE found
  IN /\ locReturned' = [op |-> "findExpert", query |-> query,
                         domain |-> queryAnalysis.domain,
                         keywords |-> queryAnalysis.keywords, expert |-> expert]
     /\ UNCHANGED <<locIsInitialized, defaultContacts, expertiseMap>>
     /\ UNCHANGED <<uvars, wvars, gvars, pvars, evars>>

\* ContactLocator.close (lines 868-872)
locatorClose ==
  /\ locIsInitialized
  /\ expertiseMap' = NoExperts
  /\ locIsInitialized' = FALSE
  /\ locReturned' = NoLocReturn
  /\ UNCHANGED defaultContacts
  /\ UNCHANGED <<uvars, wvars, gvars, pvars, evars>>

\* -------------------------------------------------------- InformationProcessor
\* the contents of the expert replies
ReplyTexts ==
   \* "Use the guest network, password is posted at reception"
  [GuestNetwork |-> <<"U", "s", "e", " ", "t", "h", "e", " ", "g", "u", "e", "s", "t", " ",
       "n", "e", "t", "w", "o", "r", "k", ",", " ", "p", "a", "s", "s", "w", "o", "r", "d",
       " ", "i", "s", " ", "p", "o", "s", "t", "e", "d", " ", "a", "t", " ", "r", "e", "c",
       "e", "p", "t", "i", "o", "n">>,
   \* "Use the guest wifi at reception"
   GuestWifi |-> <<"U", "s", "e", " ", "t", "h", "e", " ", "g", "u", "e", "s", "t", " ", "w",
       "i", "f", "i", " ", "a", "t", " ", "r", "e", "c", "e", "p", "t", "i", "o", "n">>,
   \* "too short"
   Short |-> <<"t", "o", "o", " ", "s", "h", "o", "r", "t">>,
   \* "ten chars!"
   Ten |-> <<"t", "e", "n", " ", "c", "h", "a", "r", "s", "!">>,
   \* "Mail bob@corp.ie for access"
   Email |-> <<"M", "a", "i", "l", " ", "b", "o", "b", "@", "c", "o", "r", "p", ".", "i", "e",
       " ", "f", "o", "r", " ", "a", "c", "c", "e", "s", "s">>,
   \* "Call 0871234567 for access"
   Phone |-> <<"C", "a", "l", "l", " ", "0", "8", "7", "1", "2", "3", "4", "5", "6", "7", " ",
       "f", "o", "r", " ", "a", "c", "c", "e", "s", "s">>,
   \* "Staff id 123-45-6789 on file"
   Ssn |-> <<"S", "t", "a", "f", "f", " ", "i", "d", " ", "1", "2", "3", "-", "4", "5", "-",
       "6", "7", "8", "9", " ", "o", "n", " ", "f", "i", "l", "e">>,
   \* "Card 1234 5678 9012 3456 ok"
   Card |-> <<"C", "a", "r", "d", " ", "1", "2", "3", "4", " ", "5", "6", "7", "8", " ", "9",
       "0", "1", "2", " ", "3", "4", "5", "6", " ", "o", "k">>,
   \* "The SECRET room is upstairs"
   Secret |-> <<"T", "h", "e", " ", "S", "E", "C", "R", "E", "T", " ", "r", "o", "o", "m", " ",
       "i", "s", " ", "u", "p", "s", "t", "a", "i", "r", "s">>,
   \* "Set the api-key in settings"
   ApiKey |-> <<"S", "e", "t", " ", "t", "h", "e", " ", "a", "p", "i", "-", "k", "e", "y", " ",
       "i", "n", " ", "s", "e", "t", "t", "i", "n", "g", "s">>,
   \* ""
   Empty |-> <<>>]

ReplyBodies == {ReplyTexts[name] : name \in DOMAIN ReplyTexts}

\* the texts the prohibited patterns match
PatternTexts ==
  [secret |-> <<"s", "e", "c", "r", "e", "t">>,
   confidential |-> <<"c", "o", "n", "f", "i", "d", "e", "n", "t", "i", "a", "l">>,
   apikey |-> <<"a", "p", "i", "k", "e", "y">>,
   api_key |-> <<"a", "p", "i", "_", "k", "e", "y">>,
   api_dash_key |-> <<"a", "p", "i", "-", "k", "e", "y">>]

\* the bounds of validateInformation (lines 134 and 138)
MinLength == 10
MaxLength == 50000

\* An expert reply is its text followed by a run of blanks, so that the two
\* sides of the 50,000-character bound are reached with short texts.
Text(body, filler) == [kind |-> "string", body |-> body, filler |-> filler]

\* a reply without content: response.content is undefined
MissingText == [kind |-> "missing", body |-> <<>>, filler |-> 0]

Texts ==
  {Text(body, filler) :
     body \in ReplyBodies, filler \in {0}} \cup
  {Text(body, MaxLength - Len(body)) : body \in ReplyBodies} \cup
  {Text(body, MaxLength + 1 - Len(body)) : body \in ReplyBodies}

\* information.length
length(information) == Len(information.body) + information.filler

Digits == {"0", "1", "2", "3", "4", "5", "6", "7", "8", "9"}
Letters == {UpperCase[k] : k \in 1..Len(UpperCase)} \cup {LowerCase[k] : k \in 1..Len(LowerCase)}

\* \w
WordChars == Letters \cup Digits \cup {"_"}
\* [A-Za-z0-9._%+-], [A-Za-z0-9.-] and [A-Z|a-z]
LocalChars == Letters \cup Digits \cup {".", "_", "%", "+", "-"}
DomainChars == Letters \cup Digits \cup {".", "-"}
TldChars == Letters \cup {"|"}

isWord(t, i) == i \in 1..Len(t) /\ t[i] \in WordChars

\* \b between positions i - 1 and i
wordBoundary(t, i) == isWord(t, i - 1) # isWord(t, i)

allIn(t, a, b, chars) == \A k \in a..b : t[k] \in chars

\* /\b[A-Za-z0-9._%+-]+@[A-Za-z0-9.-]+\.[A-Z|a-z]{2,}\b/
matchesEmail(t) ==
  \E at \in 1..Len(t) :
    /\ t[at] = "@"
    /\ \E start \in 1..(at - 1) :
         /\ wordBoundary(t, start)
         /\ allIn(t, start, at - 1, LocalChars)
    /\ \E dot \in (at + 2)..Len(t) :
         /\ t[dot] = "."
         /\ allIn(t, at + 1, dot - 1, DomainChars)
         /\ \E end \in (dot + 2)..Len(t) :
              /\ allIn(t, dot + 1, end, TldChars)
              /\ wordBoundary(t, end + 1)

\* /(\+\d{1,3}[- ]?)?\d{10,}/ : the optional prefix never decides a match
matchesPhone(t) == \E i \in 1..(Len(t) - 9) : allIn(t, i, i + 9, Digits)

\* /\b\d{3}-\d{2}-\d{4}\b/
matchesSsn(t) ==
  \E i \in 1..(Len(t) - 10) :
    /\ wordBoundary(t, i)
    /\ allIn(t, i, i + 2, Digits)
    /\ t[i + 3] = "-"
    /\ allIn(t, i + 4, i + 5, Digits)
    /\ t[i + 6] = "-"
    /\ allIn(t, i + 7, i + 10, Digits)
    /\ wordBoundary(t, i + 11)

\* /\b\d{4}[- ]?\d{4}[- ]?\d{4}[- ]?\d{4}\b/
matchesCreditCard(t) ==
  \E i \in 1..Len(t), s1 \in 0..1, s2 \in 0..1, s3 \in 0..1 :
    LET g2 == i + 4 + s1
        g3 == g2 + 4 + s2
        g4 == g3 + 4 + s3
    IN /\ g4 + 3 <= Len(t)
       /\ wordBoundary(t, i)
       /\ allIn(t, i, i + 3, Digits)
       /\ s1 = 1 => t[i + 4] \in {"-", " "}
       /\ allIn(t, g2, g2 + 3, Digits)
       /\ s2 = 1 => t[g2 + 4] \in {"-", " "}
       /\ allIn(t, g3, g3 + 3, Digits)
       /\ s3 = 1 => t[g3 + 4] \in {"-", " "}
       /\ allIn(t, g4, g4 + 3, Digits)
       /\ wordBoundary(t, g4 + 4)

\* detectPII (lines 175-199): the types detected, one warning for each
detectPII(text) ==
  LET types == (IF matchesEmail(text.body) THEN {"email"} ELSE {}) \cup
               (IF matchesPhone(text.body) THEN {"phone"} ELSE {}) \cup
               (IF matchesSsn(text.body) THEN {"ssn"} ELSE {}) \cup
               (IF matchesCreditCard(text.body) THEN {"creditCard"} ELSE {})
  IN [hasPII |-> types # {}, types |-> types, warnings |-> types]

\* config.safety.prohibitedPatterns (config.js lines 113-118), each pattern
\* as the texts it matches; the i flag is the lower-casing of the text
prohibitedPatterns ==
  [password |-> {Words.password},
   secret |-> {PatternTexts.secret},
   confidential |-> {PatternTexts.confidential},
   api_key |-> {PatternTexts.apikey, PatternTexts.api_key, PatternTexts.api_dash_key}]

\* checkProhibitedPatterns (lines 206-219)
checkProhibitedPatterns(text) ==
  LET lower == toLowerCase(text.body)
      prohibited == {pattern \in DOMAIN prohibitedPatterns :
                       \E t \in prohibitedPatterns[pattern] : includes(lower, t)}
  IN [hasProhibited |-> prohibited # {}, patterns |-> prohibited]

\* validateInformation (lines 125-168); reading the length of a missing
\* content throws, and the catch returns the failed validation
validateInformation(information) ==
  IF information.kind = "missing"
  THEN [isValid |-> FALSE, errors |-> {"validation_failed"}, warnings |-> {}]
  ELSE LET piiCheck == detectPII(information)
           prohibitedCheck == checkProhibitedPatterns(information)
           errors ==
             (IF length(information) = 0 THEN {"missing"} ELSE {}) \cup
             (IF length(information) < MinLength THEN {"too_short"} ELSE {}) \cup
             (IF length(information) > MaxLength THEN {"too_long"} ELSE {}) \cup
             (IF piiCheck.hasPII THEN {"pii"} ELSE {}) \cup
             (IF prohibitedCheck.hasProhibited THEN {"prohibited"} ELSE {})
       IN [isValid |-> errors = {}, errors |-> errors, warnings |-> piiCheck.warnings]

\* the replies of the model to the extraction prompt; confidence in
\* hundredths, 0 when the reply carries none
ExtractionReplies ==
  {[kind |-> "throws", confidence |-> 0, procedures |-> 0],
   [kind |-> "no_json", confidence |-> 0, procedures |-> 0],
   [kind |-> "missing_field", confidence |-> 0, procedures |-> 0]} \cup
  [kind : {"json"}, confidence : {0, 40, 95}, procedures : 0..1]

NoExtraction == [success |-> FALSE, extractionMethod |-> "none", confidence |-> 0,
                 procedures |-> 0]

\* fallbackExtraction (lines 339-370); reading the length of a missing
\* original query throws, and the catch returns the failure
fallbackExtraction(hasQuery) ==
  IF hasQuery
  THEN [success |-> TRUE, extractionMethod |-> "fallback", confidence |-> 60,
        procedures |-> 0]
  ELSE NoExtraction

\* extractStructuredInformation after the model has answered (lines 276-288)
\* with parseStructuredResponse (lines 296-331)
extractStructuredInformation(reply, hasQuery) ==
  IF reply.kind = "json"
  THEN [success |-> TRUE, extractionMethod |-> "llm",
        confidence |-> IF reply.confidence = 0 THEN 80 ELSE reply.confidence,
        procedures |-> reply.procedures]
  ELSE fallbackExtraction(hasQuery)

\* generateDocumentChunks (lines 411-473): the number of chunks
generateDocumentChunks(extraction) == IF extraction.procedures > 0 THEN 2 ELSE 1

Responses == [content : Texts \cup {MissingText}, hasQuery : BOOLEAN]

NoResponse == [content |-> MissingText, hasQuery |-> FALSE]

NoProcessing == [pc |-> "none", response |-> NoResponse,
                 validation |-> validateInformation(MissingText),
                 extraction |-> NoExtraction, documentChunks |-> 0]

ProcessingResult(op, status, success, call) ==
  [op |-> op, status |-> status, success |-> success, response |-> call.response,
   validation |-> call.validation, extraction |-> call.extraction,
   documentChunks |-> call.documentChunks]

NoProcessingResult == ProcessingResult("none", "none", FALSE, NoProcessing)

\* processReceivedInformation up to the call of the model (lines 46-70 and
\* 227-272); initialize (lines 22-39) rethrows the failure of the client
\* constructor, outside the try block of the caller
processReceivedInformation(p, response, initOk) ==
  LET validationResult == validateInformation(response.content)
      call == [NoProcessing EXCEPT !.response = response, !.validation = validationResult]
  IN /\ ipCalls[p].pc = "none"
     /\ ipNextId < MaxProcessings
     /\ IF ~ipIsInitialized /\ ~initOk
        THEN /\ ipReturned' = ProcessingResult("process", "thrown", FALSE,
                                               [NoProcessing EXCEPT !.response = response])
             /\ UNCHANGED <<ipIsInitialized, ipNextId, ipCalls>>
        ELSE /\ ipIsInitialized' = TRUE
             /\ ipNextId' = ipNextId + 1
             /\ IF ~validationResult.isValid
                THEN /\ ipReturned' =
                          ProcessingResult("process", "validation_failed", FALSE, call)
                     /\ UNCHANGED ipCalls
                ELSE /\ ipCalls' = [ipCalls EXCEPT ![p] = [call EXCEPT !.pc = "extracting"]]
                     /\ ipReturned' = NoProcessingResult
     /\ UNCHANGED <<ipProcessedInfo, processedFiles>>
     /\ UNCHANGED <<uvars, wvars, gvars, lvars, evars>>

\* the model answers or fails: lines 276-288 and 73-103
ExtractionReturns(p, reply) ==
  LET extractionResult == extractStructuredInformation(reply, ipCalls[p].response.hasQuery)
      failed == [ipCalls[p] EXCEPT !.extraction = extractionResult]
      done == [failed EXCEPT !.documentChunks = generateDocumentChunks(extractionResult),
                             !.pc = "saving"]
  IN /\ ipCalls[p].pc = "extracting"
     /\ IF ~extractionResult.success
        THEN /\ ipReturned' = ProcessingResult("process", "extraction_failed", FALSE, failed)
             /\ ipCalls' = [ipCalls EXCEPT ![p] = NoProcessing]
             /\ UNCHANGED ipProcessedInfo
        ELSE /\ ipProcessedInfo' =
                  Append(ipProcessedInfo, ProcessingResult("process", "completed", TRUE, done))
             /\ ipCalls' = [ipCalls EXCEPT ![p] = done]
             /\ ipReturned' = NoProcessingResult
     /\ UNCHANGED <<ipIsInitialized, ipNextId, processedFiles>>
     /\ UNCHANGED <<uvars, wvars, gvars, lvars, evars>>

\* saveProcessedInformation returns (lines 556-568, its failure is logged
\* only), then line 105
SaveReturns(p, ok) ==
  /\ ipCalls[p].pc = "saving"
  /\ processedFiles' = IF ok THEN processedFiles + 1 ELSE processedFiles
  /\ ipReturned' = ProcessingResult("process", "completed", TRUE, ipCalls[p])
  /\ ipCalls' = [ipCalls EXCEPT ![p] = NoProcessing]
  /\ UNCHANGED <<ipIsInitialized, ipNextId, ipProcessedInfo>>
  /\ UNCHANGED <<uvars, wvars, gvars, lvars, evars>>

\* InformationProcessor.close (lines 590-594)
processorClose ==
  /\ ipProcessedInfo' = <<>>
  /\ ipIsInitialized' = FALSE
  /\ ipReturned' = NoProcessingResult
  /\ UNCHANGED <<ipNextId, ipCalls, processedFiles>>
  /\ UNCHANGED <<uvars, wvars, gvars, lvars, evars>>

\* ------------------------------------------------- RAGEngine and index.js
\* a RAGEngine object: constructed in the shutdown epoch it was created in,
\* delivered once createRAGEngine has returned it
NoEngine ==
  [isInitialized |-> FALSE, gapInitialized |-> FALSE, epoch |-> 0, delivered |-> FALSE]

NoGetCall == [pc |-> "none", engine |-> 0]

NoQueryCall == [pc |-> "none", engine |-> 0, includeGapDetection |-> FALSE, hasGap |-> FALSE]

NoEngReturn ==
  [op |-> "none", id |-> 0, engine |-> 0, threw |-> FALSE, stage |-> "none", hasGap |-> FALSE]

EngReturn(op, id, engine, threw, stage, hasGap) ==
  [op |-> op, id |-> id, engine |-> engine, threw |-> threw, stage |-> stage, hasGap |-> hasGap]

\* how RAGEngine.initialize ends (lines 24-46): both components initialized,
\* or the error of vectorDB.initialize or of gapDetector.initialize rethrown
InitializeOutcomes == {"ok", "vectorDB", "gapDetector"}

\* getRAGEngine up to its await (index.js lines 33-38), with createRAGEngine
\* up to engine.initialize() (lines 22-24)
getRAGEngine(c) ==
  /\ getNextId < MaxCallers
  /\ c = getNextId + 1
  /\ ragEngineInstance # 0 \/ engNextId < MaxEngines
  /\ getNextId' = c
  /\ IF ragEngineInstance # 0
     THEN /\ engReturned' = EngReturn("get", c, ragEngineInstance, FALSE, "none", FALSE)
          /\ UNCHANGED <<engNextId, engines, getCalls>>
     ELSE LET e == engNextId + 1
          IN /\ engNextId' = e
             /\ engines' = [engines EXCEPT ![e] = [NoEngine EXCEPT !.epoch = shutdowns]]
             /\ getCalls' = [getCalls EXCEPT ![c] = [pc |-> "creating", engine |-> e]]
             /\ engReturned' = NoEngReturn
  /\ UNCHANGED <<ragEngineInstance, queryCalls, queryNextId, shutdowns>>
  /\ UNCHANGED <<uvars, wvars, gvars, lvars, pvars>>

\* engine.initialize() completes in createRAGEngine (lines 24-25) and
\* getRAGEngine assigns and returns the engine (lines 35-37)
CreateReturns(c, outcome) ==
  /\ getCalls[c].pc = "creating"
  /\ LET e == getCalls[c].engine
     IN IF outcome = "ok"
        THEN /\ engines' = [engines EXCEPT ![e].isInitialized = TRUE,
                                           ![e].gapInitialized = TRUE,
                                           ![e].delivered = TRUE]
             /\ ragEngineInstance' = e
             /\ engReturned' = EngReturn("get", c, e, FALSE, "none", FALSE)
        ELSE /\ engReturned' = EngReturn("get", c, 0, TRUE, outcome, FALSE)
             /\ UNCHANGED <<engines, ragEngineInstance>>
  /\ getCalls' = [getCalls EXCEPT ![c] = NoGetCall]
  /\ UNCHANGED <<engNextId, getNextId, queryCalls, queryNextId, shutdowns>>
  /\ UNCHANGED <<uvars, wvars, gvars, lvars, pvars>>

\* shutdown (index.js lines 43-49) with RAGEngine.close (lines 353-362): the
\* vector store and the gap detector are closed; none of the awaited calls
\* does I/O
shutdown ==
  /\ shutdowns < MaxShutdowns
  /\ shutdowns' = shutdowns + 1
  /\ IF ragEngineInstance # 0
     THEN /\ engines' = [engines EXCEPT ![ragEngineInstance].isInitialized = FALSE,
                                        ![ragEngineInstance].gapInitialized = FALSE]
          /\ ragEngineInstance' = 0
     ELSE UNCHANGED <<engines, ragEngineInstance>>
  /\ engReturned' = EngReturn("shutdown", 0, ragEngineInstance, FALSE, "none", FALSE)
  /\ UNCHANGED <<engNextId, getCalls, getNextId, queryCalls, queryNextId>>
  /\ UNCHANGED <<uvars, wvars, gvars, lvars, pvars>>

\* a query ends by throwing what the stage threw (lines 167-170, and the
\* await of initialize outside the try block, lines 106-108)
QueryThrows(q, stage) ==
  /\ queryCalls' = [queryCalls EXCEPT ![q] = NoQueryCall]
  /\ engReturned' = EngReturn("query", q, queryCalls[q].engine, TRUE, stage, FALSE)

\* RAGEngine.query up to its first await (lines 105-129), on an engine that
\* createRAGEngine has returned
engineQuery(q, e, includeGapDetection) ==
  /\ queryNextId < MaxQueries
  /\ q = queryNextId + 1
  /\ e <= engNextId
  /\ engines[e].delivered
  /\ queryNextId' = q
  /\ queryCalls' = [queryCalls EXCEPT ![q] =
       [pc |-> IF engines[e].isInitialized THEN "search" ELSE "initialize",
        engine |-> e, includeGapDetection |-> includeGapDetection, hasGap |-> FALSE]]
  /\ engReturned' = NoEngReturn
  /\ UNCHANGED <<ragEngineInstance, engNextId, engines, getCalls, getNextId, shutdowns>>
  /\ UNCHANGED <<uvars, wvars, gvars, lvars, pvars>>

\* this.initialize() completes in query (lines 106-108)
QueryInitializeReturns(q, outcome) ==
  /\ queryCalls[q].pc = "initialize"
  /\ IF outcome = "ok"
     THEN /\ engines' = [engines EXCEPT ![queryCalls[q].engine].isInitialized = TRUE,
                                        ![queryCalls[q].engine].gapInitialized = TRUE]
          /\ queryCalls' = [queryCalls EXCEPT ![q].pc = "search"]
          /\ engReturned' = NoEngReturn
     ELSE /\ QueryThrows(q, "initialize")
          /\ UNCHANGED engines
  /\ UNCHANGED <<ragEngineInstance, engNextId, getCalls, getNextId, queryNextId, shutdowns>>
  /\ UNCHANGED <<uvars, wvars, gvars, lvars, pvars>>

\* vectorDB.search completes (lines 124-136); analyzeKnowledgeGap is called
\* and, when the detector is not initialized, awaits its initialize
\* (KnowledgeGapDetector.js lines 50-52)
SearchReturns(q, ok) ==
  /\ queryCalls[q].pc = "search"
  /\ IF ~ok
     THEN QueryThrows(q, "search")
     ELSE /\ queryCalls' = [queryCalls EXCEPT ![q].pc =
               IF ~queryCalls[q].includeGapDetection THEN "generateResponse"
               ELSE IF engines[queryCalls[q].engine].gapInitialized
               THEN "analyzeKnowledgeGap"
               ELSE "gapDetector.initialize"]
          /\ engReturned' = NoEngReturn
  /\ UNCHANGED <<ragEngineInstance, engNextId, engines, getCalls, getNextId, queryNextId,
                 shutdowns>>
  /\ UNCHANGED <<uvars, wvars, gvars, lvars, pvars>>

\* the detector's initialize completes inside analyzeKnowledgeGap, outside
\* its try block: its error leaves analyzeKnowledgeGap and query
DetectorInitializeReturns(q, ok) ==
  /\ queryCalls[q].pc = "gapDetector.initialize"
  /\ IF ok
     THEN /\ engines' = [engines EXCEPT ![queryCalls[q].engine].gapInitialized = TRUE]
          /\ queryCalls' = [queryCalls EXCEPT ![q].pc = "analyzeKnowledgeGap"]
          /\ engReturned' = NoEngReturn
     ELSE /\ QueryThrows(q, "analyzeKnowledgeGap")
          /\ UNCHANGED engines
  /\ UNCHANGED <<ragEngineInstance, engNextId, getCalls, getNextId, queryNextId, shutdowns>>
  /\ UNCHANGED <<uvars, wvars, gvars, lvars, pvars>>

\* analyzeKnowledgeGap returns an analysis: that of the quick check, of the
\* model, or its fallback (KnowledgeGapDetector.js lines 54-92)
AnalysisReturns(q, hasGap) ==
  /\ queryCalls[q].pc = "analyzeKnowledgeGap"
  /\ queryCalls' = [queryCalls EXCEPT ![q].pc = "generateResponse", ![q].hasGap = hasGap]
  /\ engReturned' = NoEngReturn
  /\ UNCHANGED <<ragEngineInstance, engNextId, engines, getCalls, getNextId, queryNextId,
                 shutdowns>>
  /\ UNCHANGED <<uvars, wvars, gvars, lvars, pvars>>

\* generateResponse completes (lines 180-258, rethrowing); the result is
\* logged without I/O and returned (lines 141-166)
ResponseReturns(q, ok) ==
  /\ queryCalls[q].pc = "generateResponse"
  /\ IF ok
     THEN /\ queryCalls' = [queryCalls EXCEPT ![q] = NoQueryCall]
          /\ engReturned' = EngReturn("query", q, queryCalls[q].engine, FALSE, "none",
                                      queryCalls[q].hasGap)
     ELSE QueryThrows(q, "generateResponse")
  /\ UNCHANGED <<ragEngineInstance, engNextId, engines, getCalls, getNextId, queryNextId,
                 shutdowns>>
  /\ UNCHANGED <<uvars, wvars, gvars, lvars, pvars>>

\* the defaultContacts of the configuration as shipped (config.js lines 97-101)
ShippedDefaultContacts == {"hr", "it", "admin"}

\* the state after construction, whatever defaultContacts are configured
Components ==
  /\ ragEngineInstance = 0
  /\ engNextId = 0
  /\ engines = [e \in EngineIds |-> NoEngine]
  /\ getCalls = [c \in CallerIds |-> NoGetCall]
  /\ getNextId = 0
  /\ queryCalls = [q \in QueryIds |-> NoQueryCall]
  /\ queryNextId = 0
  /\ shutdowns = 0
  /\ engReturned = NoEngReturn
  /\ config \in Configs
  /\ isInitialized = FALSE
  /\ nextId = 0
  /\ updates = [u \in UpdateIds |-> NoUpdate]
  /\ updateQueue = <<>>
  /\ updateHistory = <<>>
  /\ calls = [u \in UpdateIds |-> NoCall]
  /\ updateLogFile = <<>>
  /\ approvalFile = <<>>
  /\ conflictsFile = <<>>
  /\ backups = {}
  /\ addCalls = <<>>
  /\ storeDocs = {}
  /\ now = 0
  /\ returned = NoReturn
  /\ wfIsInitialized = FALSE
  /\ wfNextId = 0
  /\ workflows = [w \in WorkflowIds |-> NoWorkflow]
  /\ activeWorkflows = {}
  /\ workflowHistory = <<>>
  /\ wfCalls = [w \in WorkflowIds |-> "none"]
  /\ responses = [w \in WorkflowIds |-> "none"]
  /\ pendingRequests = {}
  /\ dispatches = [w \in WorkflowIds |-> 0]
  /\ followUps = [w \in WorkflowIds |-> 0]
  /\ escalationsFile = {}
  /\ workflowFiles = {}
  /\ wfReturned = NoWfReturn
  /\ gapNextId = 0
  /\ gapCalls = [c \in AnalysisIds |-> NoGapCall]
  /\ gapLogFile = <<>>
  /\ llmCalls = [c \in AnalysisIds |-> 0]
  /\ gapReturned = NoGapReturn
  /\ locIsInitialized = FALSE
  /\ expertiseMap = NoExperts
  /\ locReturned = NoLocReturn
  /\ ipIsInitialized = FALSE
  /\ ipNextId = 0
  /\ ipCalls = [p \in ProcessingIds |-> NoProcessing]
  /\ ipProcessedInfo = <<>>
  /\ processedFiles = 0
  /\ ipReturned = NoProcessingResult

\* the state after construction; the detector starts uninitialized with an
\* empty history (KnowledgeGapDetector constructor, lines 11-16)
Constructed ==
  /\ Components
  /\ gapIsInitialized = FALSE
  /\ gapHistory = <<>>

Init == Constructed /\ defaultContacts = ShippedDefaultContacts

Next ==
  \/ \E p \in InfoIds, approved \in BOOLEAN : BeginUpdate(p, approved)
  \/ \E u \in UpdateIds, ok \in BOOLEAN : ApprovalReturns(u, ok)
  \/ \E u \in UpdateIds, ok \in BOOLEAN : BackupReturns(u, ok)
  \/ \E u \in UpdateIds, ok \in BOOLEAN : ConflictReturns(u, ok)
  \/ \E u \in UpdateIds, ok \in BOOLEAN : VectorReturns(u, ok)
  \/ \E u \in UpdateIds : ApproveUpdate(u)
  \/ \E u \in UpdateIds : RejectUpdate(u)
  \/ Tick

Spec == Init /\ [][Next]_vars

\* the workflow manager and its communication manager
WorkflowNext ==
  \/ \E gapAnalysis \in GapAnalyses, originalQuery \in OriginalQueries, initOk \in BOOLEAN :
        triggerWorkflow(gapAnalysis, originalQuery, initOk)
  \/ \E w \in WorkflowIds, outcome \in {"expert", "none", "error"} : FindExpertReturns(w, outcome)
  \/ \E w \in WorkflowIds, outcome \in {"sent", "send_failed", "no_channel"} :
        SendRequestReturns(w, outcome)
  \/ \E w \in WorkflowIds, ok \in BOOLEAN : LogEscalationReturns(w, ok)
  \/ \E w \in WorkflowIds, ok \in BOOLEAN : NotifyAdministratorsReturns(w, ok)
  \/ \E w \in WorkflowIds, ok \in BOOLEAN : ArchiveReturns(w, ok)
  \/ \E w \in WorkflowIds : handleResponseTimeout(w)
  \/ \E w \in WorkflowIds : processResponse(w)
  \/ \E w \in WorkflowIds, ok \in BOOLEAN : ProcessingReturns(w, ok)
  \/ \E w \in WorkflowIds : processIncomingResponse(w)
  \/ close

\* the knowledgeUpdate section as shipped (config.js lines 64-71); the workflow
\* manager does not read it
DefaultConfig ==
  [requireHumanApproval |-> TRUE, backupEnabled |-> TRUE, conflictResolution |-> "human_review"]

WorkflowInit == Init /\ config = DefaultConfig

WorkflowSpec == WorkflowInit /\ [][WorkflowNext]_vars

\* the knowledge gap detector
GapNext ==
  \/ \E query \in Queries, retrievedDocs \in RetrievedDocs :
        analyzeKnowledgeGap(query, retrievedDocs)
  \/ \E c \in AnalysisIds, ok \in BOOLEAN : GapInitializeReturns(c, ok)
  \/ \E c \in AnalysisIds, reply \in LlmReplies : LlmReturns(c, reply)
  \/ \E c \in AnalysisIds, ok \in BOOLEAN : RecordReturns(c, ok)
  \/ gapClose

GapSpec == WorkflowInit /\ [][GapNext]_vars

\* the detector of a long-running process: initialized, its history holding
\* the analyses of earlier calls, up to the limit
EarlierAnalysis(i) ==
  performDetailedGapAnalysis(
    GapQueryTexts.LeavePolicy,
    [kind |-> "json", hasGap |-> (i % 2 = 0), confidence |-> 60, gapType |-> "partial_info",
     suggestedQueries |-> [isArray |-> FALSE, items |-> <<>>], expertContactNeeded |-> FALSE],
    <<>>)

HistoryInit ==
  /\ Components
  /\ config = DefaultConfig
  /\ defaultContacts = ShippedDefaultContacts
  /\ gapIsInitialized = TRUE
  /\ \E n \in (GapHistoryLimit - MaxAnalyses)..GapHistoryLimit :
        gapHistory = [i \in 1..n |-> EarlierAnalysis(i)]

HistoryReplies ==
  {reply \in LlmReplies :
     \/ reply.kind = "throws"
     \/ reply.kind = "json" /\ reply.confidence = 150 /\ reply.suggestedQueries.isArray}

HistoryNext ==
  \/ \E doc \in {d \in Docs : d.metadata.created_at = "recent"} :
        analyzeKnowledgeGap(GapQueryTexts.LeavePolicy, <<doc>>)
  \/ \E c \in AnalysisIds, ok \in BOOLEAN : GapInitializeReturns(c, ok)
  \/ \E c \in AnalysisIds, reply \in HistoryReplies : LlmReturns(c, reply)
  \/ \E c \in AnalysisIds, ok \in BOOLEAN : RecordReturns(c, ok)
  \/ gapClose

HistorySpec == HistoryInit /\ [][HistoryNext]_vars

\* the contact locator, under every choice of configured default contacts
LocatorNext ==
  \/ \E reply \in DirectoryReplies : locatorInitialize(reply)
  \/ \E expert \in ExpertsToAdd : addExpert(expert)
  \/ \E query \in LocatorQueries : findExpert(query)
  \/ locatorClose

LocatorInit ==
  /\ Constructed
  /\ config = DefaultConfig
  /\ defaultContacts \in SUBSET ShippedDefaultContacts

LocatorSpec == LocatorInit /\ [][LocatorNext]_vars

\* the information processor
ProcessorNext ==
  \/ \E p \in ProcessingIds, response \in Responses, initOk \in BOOLEAN :
        processReceivedInformation(p, response, initOk)
  \/ \E p \in ProcessingIds, reply \in ExtractionReplies : ExtractionReturns(p, reply)
  \/ \E p \in ProcessingIds, ok \in BOOLEAN : SaveReturns(p, ok)
  \/ processorClose

ProcessorSpec == WorkflowInit /\ [][ProcessorNext]_vars

\* the engine and its singleton accessor
EngineNext ==
  \/ \E c \in CallerIds : getRAGEngine(c)
  \/ \E c \in CallerIds, outcome \in InitializeOutcomes : CreateReturns(c, outcome)
  \/ shutdown
  \/ \E q \in QueryIds, e \in EngineIds, includeGapDetection \in BOOLEAN :
        engineQuery(q, e, includeGapDetection)
  \/ \E q \in QueryIds, outcome \in InitializeOutcomes : QueryInitializeReturns(q, outcome)
  \/ \E q \in QueryIds, ok \in BOOLEAN : SearchReturns(q, ok)
  \/ \E q \in QueryIds, ok \in BOOLEAN : DetectorInitializeReturns(q, ok)
  \/ \E q \in QueryIds, hasGap \in BOOLEAN : AnalysisReturns(q, hasGap)
  \/ \E q \in QueryIds, ok \in BOOLEAN : ResponseReturns(q, ok)

EngineSpec == WorkflowInit /\ [][EngineNext]_vars

\* =================================================================== claims
HasStep(u, step, status) ==
  \E i \in 1..Len(updates[u].steps) : updates[u].steps[i] = <<step, status>>

StepBefore(u, s1, s2) ==
  \E i, j \in 1..Len(updates[u].steps) :
    i < j /\ updates[u].steps[i] = s1 /\ updates[u].steps[j] = s2

AddCalled(u) == \E i \in 1..Len(addCalls) : addCalls[i].id = u

InFile(file, u) == \E i \in 1..Len(file) : file[i] = u

Logged(u) == \E i \in 1..Len(updateLogFile) : updateLogFile[i].id = u

TerminalStatuses ==
  {"completed", "rejected", "validation_failed", "backup_failed",
   "conflict_resolution_failed", "vector_db_failed", "error"}

C2_BackupFailureAborts ==
  \A u \in UpdateIds :
    HasStep(u, "backup", "failed") =>
      /\ ~AddCalled(u)
      /\ calls[u].pc = "none"
      /\ u \notin backups
      /\ \A k \in 1..2 : <<u, k>> \notin storeDocs
      /\ (returned.op = "update" /\ returned.id = u) =>
           (~returned.success /\ returned.error = "Backup failed")

C2_Witness ==
  \E u \in UpdateIds :
    /\ HasStep(u, "backup", "failed")
    /\ returned.op = "update" /\ returned.id = u /\ returned.error = "Backup failed"

\* C3 (as stated): a validated update under requireHumanApproval without the
\* caller's approval returns AwaitingApproval with the request persisted.
C3_GateAlwaysPersists ==
  (returned.op = "update" /\ config.requireHumanApproval /\ ~returned.approved
     /\ returned.error # "Validation failed") =>
    (returned.status = "awaiting_approval" /\ InFile(approvalFile, returned.id))

\* C3 (amended): such an update never gets a backup or an addDocuments call;
\* its call stops at the gate and returns AwaitingApproval with the request
\* persisted, or, when writing the request fails, a failure with nothing persisted.
C3_ApprovalGate ==
  /\ \A u \in UpdateIds :
       (calls[u].pc # "none" /\ config.requireHumanApproval /\ ~calls[u].approved) =>
         calls[u].pc = "approval_io"
  /\ \A u \in UpdateIds :
       HasStep(u, "human_approval", "pending") =>
         /\ ~AddCalled(u)
         /\ u \notin backups
         /\ ~HasStep(u, "backup", "in_progress")
         /\ \A k \in 1..2 : <<u, k>> \notin storeDocs
  /\ (returned.op = "update" /\ config.requireHumanApproval /\ ~returned.approved
        /\ returned.error # "Validation failed") =>
       /\ HasStep(returned.id, "human_approval", "pending")
       /\ \/ /\ returned.success
             /\ returned.status = "awaiting_approval"
             /\ InFile(approvalFile, returned.id)
          \/ /\ ~returned.success
             /\ returned.error = "exception"
             /\ ~InFile(approvalFile, returned.id)

C3_Witness ==
  /\ returned.op = "update" /\ returned.status = "awaiting_approval"
  /\ config.requireHumanApproval /\ ~returned.approved
  /\ InFile(approvalFile, returned.id)

\* C4: an update whose extraction confidence is below 0.3 is rejected at
\* validation with a validation error; no backup and no commit happens for it.
C4_LowConfidenceRejected ==
  /\ \A u \in UpdateIds :
       calls[u].pc # "none" =>
         ~(processedInfo[calls[u].processedInfoId].hasExtraction
           /\ processedInfo[calls[u].processedInfoId].confidence < 3)
  /\ \A i \in 1..Len(addCalls) :
       ~(processedInfo[addCalls[i].processedInfoId].hasExtraction
         /\ processedInfo[addCalls[i].processedInfoId].confidence < 3)
  /\ (returned.op = "update"
        /\ processedInfo[returned.processedInfoId].hasExtraction
        /\ processedInfo[returned.processedInfoId].confidence < 3) =>
       /\ ~returned.success
       /\ returned.error = "Validation failed"
       /\ "low_confidence" \in returned.details
       /\ updates[returned.id].status = "validation_failed"
       /\ HasStep(returned.id, "validation", "failed")
       /\ ~HasStep(returned.id, "backup", "in_progress")
       /\ returned.id \notin backups
       /\ ~AddCalled(returned.id)

C4_Witness ==
  /\ returned.op = "update"
  /\ processedInfo[returned.processedInfoId].confidence = 2
  /\ returned.details = {"low_confidence"}

\* the time validateUpdate reads from history entry i
C5_EntryTime(i) ==
  LET x == updates[updateHistory[i]]
  IN IF x.completedAt # -1 THEN x.completedAt ELSE x.requestedAt

C6_HumanReviewStopsCommit ==
  \A u \in UpdateIds :
    updates[u].conflictResolution = "escalated_to_human_review" =>
      (InFile(conflictsFile, u) /\ ~AddCalled(u))

\* C7: every update record whose call has ended, whatever its status, has an
\* entry in the update log.
C7_EveryUpdateLogged ==
  \A u \in UpdateIds :
    (calls[u].pc = "none" /\ updates[u].status \in TerminalStatuses) => Logged(u)

\* C8 (as stated): approve on a Completed update returns that terminal record.
C8_ApproveReturnsRecord ==
  (returned.op = "approve" /\ updates[returned.id].status = "completed") =>
    (returned.success /\ returned.status = "completed")

\* C8 (amended): approve on a Completed update changes nothing and commits
\* nothing; every such call returns the same failure, update not found in queue.
C8_ApproveCompletedNoOp ==
  [][(returned'.op = "approve" /\ updates[returned'.id].status = "completed")
     => /\ ~returned'.success
        /\ returned'.error = "not found in queue"
        /\ UNCHANGED <<updates, updateQueue, updateHistory, calls, updateLogFile,
                       backups, addCalls, storeDocs>>]_vars

C8_Witness ==
  returned.op = "approve" /\ updates[returned.id].status = "completed"

\* C9: approve on an update that is awaiting approval resumes its pipeline, so
\* the update is no longer awaiting approval once approve has returned.
C9_ApproveResumes ==
  (returned.op = "approve" /\ calls[returned.id].pc = "none") =>
    updates[returned.id].status # "awaiting_approval"

HasWorkflowStep(w, step, status) ==
  \E i \in 1..Len(workflows[w].steps) : workflows[w].steps[i] = <<step, status>>

\* C10: a workflow whose monitor has expired and whose expert never replied
\* has sent exactly retryAttempts follow-ups in at most retryAttempts + 1
\* dispatches and has status TimedOut.
C10_TimeoutRetries ==
  \A w \in WorkflowIds :
    (/\ workflows[w].monitor = "fired"
     /\ wfCalls[w] = "done"
     /\ w \in pendingRequests
     /\ ~HasWorkflowStep(w, "processing_response", "in_progress")) =>
      /\ followUps[w] = RetryAttempts
      /\ dispatches[w] <= RetryAttempts + 1
      /\ workflows[w].status = "timed_out"

Archived(w) == \E i \in 1..Len(workflowHistory) : workflowHistory[i] = w

TerminalWorkflowStatuses == {"completed", "failed", "timed_out", "escalated"}

\* C11: a workflow whose request was sent, whose timer is still armed and
\* whose expert has not replied is active and has status AwaitingResponse.
C11_ActiveWhileAwaiting ==
  \A w \in WorkflowIds :
    (/\ workflows[w].monitor = "armed"
     /\ w \in pendingRequests
     /\ ResponsesSeen(w) = 0) =>
      /\ w \in activeWorkflows
      /\ ~Archived(w)
      /\ workflows[w].status = "awaiting_response"

\* C12: a reply handed to processResponse for a workflow whose timer is armed
\* cancels the timer, and when it is processed successfully the workflow has
\* status ResponseReceived.
C12_ReplyCancelsTimer ==
  [][\A w \in WorkflowIds :
       (/\ workflows[w].monitor = "armed"
        /\ wfReturned'.op = "processResponse"
        /\ wfReturned'.id = w) =>
         /\ workflows'[w].monitor = "cleared"
         /\ wfReturned'.success => workflows'[w].status = "response_received"]_vars

\* C13: a workflow takes its terminal status in the step that archives it,
\* and the status of an archived workflow never changes afterwards.
C13_TerminalOnceArchived ==
  [][\A w \in WorkflowIds :
       /\ (~Archived(w) /\ Archived(w)') =>
            /\ workflows[w].status \notin TerminalWorkflowStatuses
            /\ workflows'[w].status \in TerminalWorkflowStatuses
            /\ w \notin activeWorkflows'
       /\ Archived(w) =>
            /\ Archived(w)'
            /\ workflows'[w].status = workflows[w].status]_vars

\* C14: when the contact locator returns no expert the workflow fails with
\* reason no_expert_found, no request is dispatched and no timer is armed.
C14_NoExpertFailsClosed ==
  \A w \in WorkflowIds :
    HasWorkflowStep(w, "locating_expert", "failed") =>
      /\ workflows[w].result = Result(FALSE, "no_expert_found")
      /\ ~HasWorkflowStep(w, "processing_response", "completed") =>
           workflows[w].status = "failed"
      /\ dispatches[w] = 0
      /\ followUps[w] = 0
      /\ w \notin pendingRequests
      /\ workflows[w].monitor = "none"
      /\ ~HasWorkflowStep(w, "sending_request", "in_progress")
      /\ wfCalls[w] \in {"archiving", "done"}
      /\ Archived(w)

C14_Witness ==
  \E w \in WorkflowIds :
    /\ HasWorkflowStep(w, "locating_expert", "failed")
    /\ wfReturned = WfReturn("trigger", w, FALSE, "no_expert_found")

\* C15: when dispatching the information request fails the workflow ends
\* failed with reason request_failed and no response timer is armed.
C15_DispatchFailureFails ==
  \A w \in WorkflowIds :
    HasWorkflowStep(w, "sending_request", "failed") =>
      /\ workflows[w].result = Result(FALSE, "request_failed")
      /\ ~HasWorkflowStep(w, "processing_response", "completed") =>
           workflows[w].status = "failed"
      /\ workflows[w].monitor = "none"
      /\ ~HasWorkflowStep(w, "awaiting_response", "in_progress")
      /\ w \notin pendingRequests
      /\ followUps[w] = 0
      /\ wfCalls[w] \in {"archiving", "done"}
      /\ Archived(w)

C15_Witness ==
  \E w \in WorkflowIds :
    /\ HasWorkflowStep(w, "sending_request", "failed")
    /\ dispatches[w] = 1
    /\ wfReturned = WfReturn("trigger", w, FALSE, "request_failed")

\* C16: the strategy of every workflow is the one the selection table gives
\* for its gap analysis, first match first, and has a type and a priority.
C16_StrategySelection ==
  \A w \in WorkflowIds :
    workflows[w].status # "none" =>
      LET g == workflows[w].gapAnalysis
          st == workflows[w].strategy
          high == g.expertContactNeeded /\ g.confidence > 80
      IN /\ st.type \in {"expert_contact", "document_search", "clarification", "escalation"}
         /\ st.priority \in {"high", "medium", "low"}
         /\ high =>
              (st.type = "expert_contact" /\ st.priority = "high" /\ st.timeout = 2 * 60)
         /\ (~high /\ g.gapType = "no_documents") =>
              (st.type = "document_search" /\ st.fallback = "expert_contact"
               /\ st.timeout = 30)
         /\ (~high /\ g.gapType = "outdated_info") =>
              (st.type = "expert_contact" /\ st.timeout = 4 * 60)
         /\ (~high /\ g.gapType = "unclear_question") =>
              (st.type = "clarification" /\ st.timeout = 60)
         /\ (~high /\ g.gapType = "partial_info") =>
              (st.type = "expert_contact" /\ st.timeout = 3 * 60)
         /\ (~high /\ g.gapType \notin {"no_documents", "outdated_info", "unclear_question",
                                        "partial_info"}) =>
              (st.type = "escalation" /\ st.timeout = 24 * 60)

C16_Witness ==
  \E w \in WorkflowIds :
    /\ workflows[w].gapAnalysis = GapAnalysis("partial_info", TRUE, 80)
    /\ workflows[w].strategy.timeout = 180

\* C17: a workflow triggered with the analysis the gap detector produces for
\* an empty retrieval (hasGap, no_documents) has strategy DocumentSearch with
\* fallback ExpertContact.
C17_EmptyStoreDocumentSearch ==
  \A w \in WorkflowIds, query \in Queries :
    LET quickGapCheck == performQuickGapCheck(query, <<>>)
    IN (/\ quickGapCheck.hasGap
        /\ quickGapCheck.gapType = "no_documents"
        /\ workflows[w].gapAnalysis =
             GapAnalysis(quickGapCheck.gapType, quickGapCheck.expertContactNeeded,
                         quickGapCheck.confidence)) =>
         /\ workflows[w].strategy.type = "document_search"
         /\ workflows[w].strategy.fallback = "expert_contact"

\* the strategy of workflow w has returned its result
StrategyReturned(w) == wfCalls[w] \in {"archiving", "done"}

\* C18: an escalation whose record was written to escalations.jsonl ends with
\* result success, reason escalated, after trying to notify the administrators,
\* whatever the outcome of the notification; an escalation whose record could
\* not be written ends failed with reason workflow_error and notifies nobody.
C18_EscalationOutcome ==
  \A w \in WorkflowIds :
    workflows[w].strategy.type = "escalation" =>
      /\ wfCalls[w] = "notifying_admins" => w \in escalationsFile
      /\ StrategyReturned(w) =>
           IF w \in escalationsFile
           THEN /\ workflows[w].result = Result(TRUE, "escalated")
                /\ HasWorkflowStep(w, "logging_escalation", "completed")
                /\ \/ HasWorkflowStep(w, "notifying_admins", "completed")
                   \/ HasWorkflowStep(w, "notifying_admins", "failed")
                /\ ~HasWorkflowStep(w, "processing_response", "completed") =>
                     workflows[w].status = "completed"
           ELSE /\ workflows[w].result = Result(FALSE, "workflow_error")
                /\ HasWorkflowStep(w, "workflow_error", "failed")
                /\ ~HasWorkflowStep(w, "notifying_admins", "in_progress")
                /\ ~HasWorkflowStep(w, "processing_response", "completed") =>
                     workflows[w].status = "failed"

\* an escalation returns success although the administrators were not reached
C18_Witness ==
  \E w \in WorkflowIds :
    /\ workflows[w].strategy.type = "escalation"
    /\ w \in escalationsFile
    /\ HasWorkflowStep(w, "notifying_admins", "failed")
    /\ wfReturned = WfReturn("trigger", w, TRUE, "escalated")

\* C18 as stated: every escalation whose strategy has returned has written
\* its record, tried to notify the administrators and has result success.
C18_AlwaysSucceeds ==
  \A w \in WorkflowIds :
    (workflows[w].strategy.type = "escalation" /\ StrategyReturned(w)) =>
      /\ workflows[w].result.success
      /\ w \in escalationsFile
      /\ HasWorkflowStep(w, "notifying_admins", "in_progress")

C20_NoNeighboursIsGap ==
  /\ (gapReturned.op = "analyze" /\ ~gapReturned.threw /\ Len(gapReturned.docs) = 0) =>
       /\ gapReturned.analysis.hasGap
       /\ gapReturned.analysis.gapType = "no_documents"
       /\ gapReturned.analysis.confidence >= 90
  /\ \A c \in AnalysisIds :
       gapCalls[c].pc \in {"llm", "recording"} => Len(gapCalls[c].docs) > 0

\* an analysis is returned for an empty retrieval
C20_Witness ==
  /\ gapReturned.op = "analyze"
  /\ ~gapReturned.threw
  /\ Len(gapReturned.docs) = 0
  /\ gapReturned.analysis.origin = "quickCheck"

MaxSimilarity(docs) == Max({docs[i].similarity : i \in 1..Len(docs)})

\* C21: an analysis returned for a non-empty retrieval whose best similarity
\* is below similarityThreshold is LowRelevance and its call asked the model
\* nothing; a call whose quick check reports a gap never asks the model, and
\* the analysis of the quick check is the one returned.
C21_QuickCheckSkipsModel ==
  /\ (/\ gapReturned.op = "analyze"
      /\ ~gapReturned.threw
      /\ Len(gapReturned.docs) > 0
      /\ MaxSimilarity(gapReturned.docs) < SimilarityThreshold) =>
       /\ gapReturned.analysis.hasGap
       /\ gapReturned.analysis.gapType = "low_relevance"
       /\ gapReturned.analysis.origin = "quickCheck"
       /\ llmCalls[gapReturned.id] = 0
  /\ (gapReturned.op = "analyze" /\ gapReturned.analysis.origin = "quickCheck") =>
       llmCalls[gapReturned.id] = 0
  /\ \A c \in AnalysisIds :
       /\ gapCalls[c].pc \in {"llm", "recording"} =>
            ~performQuickGapCheck(gapCalls[c].query, gapCalls[c].docs).hasGap
       /\ llmCalls[c] > 0 =>
            \/ gapCalls[c].pc \in {"llm", "recording"}
            \/ c <= gapNextId /\ gapCalls[c].pc = "none"

\* a LowRelevance analysis is returned for a non-empty retrieval
C21_Witness ==
  /\ gapReturned.op = "analyze"
  /\ Len(gapReturned.docs) > 0
  /\ MaxSimilarity(gapReturned.docs) < SimilarityThreshold
  /\ gapReturned.analysis.gapType = "low_relevance"
  /\ llmCalls[gapReturned.id] = 0

\* C22: the analysis returned when the model's reply holds no structured
\* object or lacks a required field is the safe default: hasGap false,
\* confidence 0.5, gapType AnalysisError, and nothing is thrown.
C22_UnparseableReplyDefault ==
  (gapReturned.op = "analyze" /\ gapReturned.response \in {"no_json", "missing_field"}) =>
    /\ ~gapReturned.threw
    /\ ~gapReturned.analysis.hasGap
    /\ gapReturned.analysis.confidence = 50
    /\ gapReturned.analysis.gapType = "analysis_error"

InSeq(x, seq) == \E i \in 1..Len(seq) : seq[i] = x

\* C23: every analysis analyzeKnowledgeGap returns, from the quick check or
\* from the model, is in the in-memory history and in the analysis log.
C23_EveryAnalysisRecorded ==
  (gapReturned.op = "analyze" /\ ~gapReturned.threw) =>
    /\ InSeq(gapReturned.analysis, gapHistory)
    /\ InSeq(gapReturned.analysis, gapLogFile)

\* C24: findExpert classifies the query into the domain with the most keyword
\* matches; among domains that tie for the most, the one declared first in the
\* order HR, IT, Finance, Admin, Legal, Operations, General; without any match
\* the domain is General.
C24_DomainClassification ==
  locReturned.op = "findExpert" =>
    LET taxonomy == <<"hr", "it", "finance", "admin", "legal", "operations", "general">>
        keywords == queryKeywords(locReturned.query)
        most == Max({DomainMatches(keywords, taxonomy[i]) : i \in 1..Len(taxonomy)})
        winners == {i \in 1..Len(taxonomy) : DomainMatches(keywords, taxonomy[i]) = most}
    IN IF most = 0
       THEN locReturned.domain = "general"
       ELSE locReturned.domain = taxonomy[CHOOSE i \in winners : \A j \in winners : i <= j]

\* a query whose only keyword matches IT and Admin alike is classified IT
C24_Witness ==
  /\ locReturned.op = "findExpert"
  /\ locReturned.query = QueryTexts.Facility
  /\ DomainMatches(locReturned.keywords, "it") = DomainMatches(locReturned.keywords, "admin")
  /\ locReturned.domain = "it"

\* C25: when the domain of the query has registered experts, the expert
\* returned is one of them and none of them ranks strictly above it: none
\* matches more keywords, and none matching as many declares a lower response
\* time.
C25_BestExpertReturned ==
  (locReturned.op = "findExpert" /\ Len(expertiseMap[locReturned.domain]) > 0) =>
    LET experts == expertiseMap[locReturned.domain]
        keywords == locReturned.keywords
        chosen == locReturned.expert
    IN /\ \E i \in 1..Len(experts) :
            /\ chosen.id = experts[i].id
            /\ chosen.matchScore = matchScore(experts[i], keywords)
            /\ chosen.responseTime = experts[i].responseTime
       /\ \A j \in 1..Len(experts) :
            /\ matchScore(experts[j], keywords) <= chosen.matchScore
            /\ matchScore(experts[j], keywords) = chosen.matchScore =>
                 declaredResponseTime(experts[j]) >= declaredResponseTime(chosen)

\* of two experts matching as many keywords the second registered, who
\* declares the lower response time, is returned
C25_Witness ==
  /\ locReturned.op = "findExpert"
  /\ Len(expertiseMap[locReturned.domain]) = 2
  /\ LET experts == expertiseMap[locReturned.domain]
     IN /\ locReturned.expert.id = experts[2].id
        /\ locReturned.expert.matchScore > 0
        /\ matchScore(experts[1], locReturned.keywords) = locReturned.expert.matchScore
        /\ declaredResponseTime(experts[1]) > declaredResponseTime(experts[2])

\* C26: findExpert returns no contact only when none of any kind exists: with
\* an expert registered in some domain or a default contact configured, it
\* returns a contact.
C26_NullOnlyWithoutContacts ==
  (/\ locReturned.op = "findExpert"
   /\ \/ defaultContacts # {}
      \/ \E domain \in Domains : Len(expertiseMap[domain]) > 0) =>
    locReturned.expert # NoExpert

\* C27: validation rejects a reply exactly when it is shorter than 10
\* characters, longer than 50,000 characters or matches a prohibited pattern;
\* a detected PII pattern adds a warning and does not make the reply invalid.
C27_PiiOnlyWarns ==
  (/\ ipReturned.op = "process"
   /\ ipReturned.status # "thrown"
   /\ ipReturned.response.content.kind = "string") =>
    LET information == ipReturned.response.content
    IN /\ ipReturned.validation.isValid =
            ~(\/ length(information) < MinLength
              \/ length(information) > MaxLength
              \/ checkProhibitedPatterns(information).hasProhibited)
       /\ detectPII(information).hasPII => ipReturned.validation.warnings # {}

\* C28: the reply "Use the guest network, password is posted at reception"
\* is accepted by the processor, without PII warning and with a confidence of
\* at least 0.6, as one chunk for the updater.
C28_GuestNetworkReplyAccepted ==
  (/\ ipReturned.op = "process"
   /\ ipReturned.status # "thrown"
   /\ ipReturned.response.content = Text(ReplyTexts.GuestNetwork, 0)) =>
    /\ ipReturned.status = "completed"
    /\ ipReturned.validation.isValid
    /\ ipReturned.validation.warnings = {}
    /\ ipReturned.extraction.confidence >= 60
    /\ ipReturned.documentChunks = 1

\* C29: close, for a workflow whose response timer is armed, clears the timer
\* and marks the workflow failed with reason "cancelled"; afterwards no
\* timeout handling runs for it and the call it was waiting for changes
\* nothing of it.
C29_CloseCancelsWorkflow ==
  [][\A w \in WorkflowIds :
       /\ (wfIsInitialized /\ ~wfIsInitialized' /\ workflows[w].monitor = "armed") =>
            /\ workflows'[w].monitor = "cleared"
            /\ workflows'[w].status = "failed"
            /\ workflows'[w].result.reason = "cancelled"
       /\ (~wfIsInitialized /\ ~wfIsInitialized' /\ workflows[w].monitor = "cleared") =>
            /\ workflows'[w] = workflows[w]
            /\ Archived(w)' = Archived(w)]_vars

\* the steps that the strategies of triggerWorkflow record as failed
StrategySteps ==
  {"locating_expert", "sending_request", "fallback_to_expert", "notifying_admins",
   "workflow_error"}

\* C30: no failure inside a workflow step leaves triggerWorkflow as an
\* exception: a call that threw created no workflow, a workflow with a failed
\* strategy step has its result, a terminal status and its place in the
\* archive, and a failed result comes with a failed step in the log.
C30_StepFailuresContained ==
  /\ (wfReturned.op = "trigger" /\ wfReturned.reason = "thrown") =>
       wfReturned.id \notin WorkflowIds
  /\ \A w \in WorkflowIds :
       /\ (\E step \in StrategySteps : HasWorkflowStep(w, step, "failed")) =>
            /\ wfCalls[w] \in {"archiving", "done"}
            /\ workflows[w].result # NoResult
            /\ Archived(w)
            /\ w \notin activeWorkflows
            /\ ~HasWorkflowStep(w, "processing_response", "completed") =>
                 workflows[w].status \in {"completed", "failed"}
       /\ (wfCalls[w] \in {"archiving", "done"} /\ ~workflows[w].result.success) =>
            /\ workflows[w].result # NoResult
            /\ \E step \in StrategySteps : HasWorkflowStep(w, step, "failed")

C30_Witness ==
  \E w \in WorkflowIds :
    /\ HasWorkflowStep(w, "workflow_error", "failed")
    /\ workflows[w].status = "failed"
    /\ wfReturned = WfReturn("trigger", w, FALSE, "workflow_error")

\* C31: an update record that has a terminal status keeps its status and its
\* step log in every later step.
C31_TerminalRecordFrozen ==
  [][\A u \in UpdateIds :
       updates[u].status \in TerminalStatuses =>
         /\ updates'[u].status = updates[u].status
         /\ updates'[u].steps = updates[u].steps]_vars

\* C32: a processed-information item is committed at most once: no two calls
\* of vectorDB.addDocuments pass the chunks of the same item.
C32_CommittedAtMostOnce ==
  \A i, j \in 1..Len(addCalls) :
    i # j => addCalls[i].processedInfoId # addCalls[j].processedInfoId

\* the calls of vectorDB.addDocuments made for update u
AddCallsOf(u) == Cardinality({i \in 1..Len(addCalls) : addCalls[i].id = u})

HistoryEntries(u) == Cardinality({i \in 1..Len(updateHistory) : updateHistory[i] = u})

\* C37: once rejectUpdate has marked an update rejected, no step calls
\* vectorDB.addDocuments for it, and it stays in the update history exactly
\* once, with status rejected.
C37_RejectedNeverCommitted ==
  [][\A u \in UpdateIds :
       HasStep(u, "human_approval", "rejected") =>
         /\ AddCallsOf(u)' = AddCallsOf(u)
         /\ updates'[u].status = "rejected"
         /\ HistoryEntries(u)' = 1]_vars

\* C38: the updates committed to the store within the last hour are never
\* more than updatesPerHour.
C38_CommittedWithinLimit ==
  Cardinality({u \in UpdateIds :
                 updates[u].completedAt # -1 /\ updates[u].completedAt > now - Hour})
    <= UpdatesPerHour

\* C39: when updateKnowledgeBase fails with an exception for an update, that
\* update is marked error and no other update changes.
C39_ErrorMarksOwnUpdate ==
  [][(returned'.op = "update" /\ returned'.error = "exception") =>
       /\ updates'[returned'.id].status = "error"
       /\ \A v \in UpdateIds \ {returned'.id} : updates'[v] = updates[v]]_vars

\* a neighbour is recent when one of its dates lies within the last six months,
\* and older when it has a date and none of its dates does
NeighbourRecent(doc) ==
  doc.metadata.created_at = "recent" \/ doc.metadata.updated_at = "recent"

NeighbourOlder(doc) ==
  /\ doc.metadata.created_at # "" \/ doc.metadata.updated_at # ""
  /\ ~NeighbourRecent(doc)

\* C34: the quick check of a query with a recency cue, for a non-empty
\* retrieval whose best similarity reaches the threshold, is outdated_info with
\* hasGap when every neighbour is older than six months, and reports no gap
\* when at least one neighbour is recent.
C34_OutdatedOnlyWithoutRecent ==
  (/\ gapReturned.op = "analyze"
   /\ ~gapReturned.threw
   /\ includes(toLowerCase(gapReturned.query), <<"c", "u", "r", "r", "e", "n", "t">>)
   /\ Len(gapReturned.docs) > 0
   /\ MaxSimilarity(gapReturned.docs) >= SimilarityThreshold)
  => LET retrievedDocs == gapReturned.docs
         quickGapCheck == performQuickGapCheck(gapReturned.query, retrievedDocs)
     IN /\ (\A i \in 1..Len(retrievedDocs) : NeighbourOlder(retrievedDocs[i]))
             => /\ gapReturned.analysis.hasGap
                /\ gapReturned.analysis.gapType = "outdated_info"
        /\ (\E i \in 1..Len(retrievedDocs) : NeighbourRecent(retrievedDocs[i]))
             => /\ ~quickGapCheck.hasGap
                /\ gapReturned.analysis.origin # "quickCheck"

\* the qualifiers and department prefixes are applied to the original query
SynthesizedFrom(suggestedQueries, query) ==
  /\ Len(suggestedQueries) > 0
  /\ \A i \in 1..Len(suggestedQueries) :
       \/ includes(suggestedQueries[i], query)
       \/ includes(query, suggestedQueries[i])

\* C35: every returned analysis has between 1 and 5 suggested queries, and
\* when the model supplied none (it was not asked, threw, or its reply could
\* not be parsed) they are synthesized from the original query.
C35_SuggestionsSynthesized ==
  (gapReturned.op = "analyze" /\ ~gapReturned.threw) =>
    /\ Len(gapReturned.analysis.suggestedQueries) \in 1..5
    /\ gapReturned.response # "json"
         => SynthesizedFrom(gapReturned.analysis.suggestedQueries, gapReturned.query)

\* C36: the gap history never holds more than 1000 entries, and recording an
\* analysis appends it and, when the history was full, drops the oldest entry.
C36_BoundedHistory ==
  /\ [](Len(gapHistory) <= GapHistoryLimit)
  /\ [][gapHistory' # gapHistory =>
          \E c \in AnalysisIds :
            /\ gapCalls[c].pc = "llm"
            /\ gapCalls'[c].pc = "recording"
            /\ gapHistory' =
                 IF Len(gapHistory) < GapHistoryLimit
                 THEN Append(gapHistory, gapCalls'[c].analysis)
                 ELSE Append(Tail(gapHistory), gapCalls'[c].analysis)]_vars

\* a full history after an eviction: its first entry is the second of the
\* earlier analyses and its last is the one being recorded
C36_Witness ==
  /\ Len(gapHistory) = GapHistoryLimit
  /\ gapHistory[1] = EarlierAnalysis(2)
  /\ \E c \in AnalysisIds :
       /\ gapCalls[c].pc = "recording"
       /\ gapHistory[GapHistoryLimit] = gapCalls[c].analysis
       /\ gapCalls[c].analysis.confidence # 60

\* C33: no query ends by throwing what analyzeKnowledgeGap threw, whether or
\* not a gap was detected.
C33_GapFailureContained ==
  ~(/\ engReturned.op = "query"
    /\ engReturned.threw
    /\ engReturned.stage = "analyzeKnowledgeGap")

\* C40: all engines that getRAGEngine created within one shutdown epoch and
\* handed to a caller are the same engine.
C40_SingleInstance ==
  \A e1, e2 \in EngineIds :
    (/\ engines[e1].delivered
     /\ engines[e2].delivered
     /\ engines[e1].epoch = engines[e2].epoch) => e1 = e2

TypeOK ==
  /\ nextId \in 0..MaxUpdates
  /\ now \in 0..MaxTime
====
